---- MODULE Spec2Model ----
(***************************************************************************)
(* A model of the legal-document RAG pipeline of legal-ai-complete:        *)
(*   - ingestion/text_cleaner.py   TextCleaner (regex based normalizer)    *)
(*   - ingestion/file_loader.py    FileLoader (validate, parse, clean)     *)
(*   - vector_store/*.py           VectorDBManager, LegalRetriever         *)
(*   - app/engine.py               LegalAIEngine (ingest, chat, summarize) *)
(*                                                                         *)
(* A text is a sequence of one-character strings.  Numbers that are floats *)
(* in the program (similarity thresholds, cosine distances) are kept in    *)
(* tenths: 0.3 is 3, 2.0 is 20.                                            *)
(***************************************************************************)
EXTENDS Integers, Sequences, FiniteSets, TLC

(***************************************************************************)
(* Bounds of the model.                                                    *)
(***************************************************************************)
\* the longest text handed to the cleaner
MaxLen == 5
\* the most chunks a ranking handed to retrieve_relevant holds
MaxHits == 3
\* the most chunks a file splits into
MaxChunks == 2
\* the most chunks the collection holds
MaxIndexed == 3

(***************************************************************************)
(* Program constants.                                                      *)
(***************************************************************************)
\* app/config.py: NUM_RELEVANT_DOCS = 4
NUM_RELEVANT_DOCS == 4
\* app/config.py: RETRIEVAL_THRESHOLD = 0.3, in tenths
RETRIEVAL_THRESHOLD == 3
\* app/engine.py chat: max_retries = 3
max_retries == 3
\* app/engine.py summarize: self.retriever.retrieve(query, k=10)
SUMMARY_K == 10
\* app/config.py: SUPPORTED_EXTENSIONS
SUPPORTED_EXTENSIONS == {".pdf", ".txt", ".docx"}

(***************************************************************************)
(* Characters.  The control characters and the Thai letters the cleaner    *)
(* names are tokens of their own.                                          *)
(***************************************************************************)
NUL == "NUL"
NIKHAHIT == "NIKHAHIT"
SARA_AA == "SARA_AA"
SARA_AM == "SARA_AM"
SARA_E == "SARA_E"
SARA_AE == "SARA_AE"
HO_HIP == "HO_HIP"
NO_NU == "NO_NU"
MAI_THO == "MAI_THO"

Digit == {"0", "1", "2", "3", "4", "5", "6", "7", "8", "9"}
\* what \s of the re module and str.strip() take for white space
Space == {" ", "\t", "\n", "\r", "\f"}
HSpace == {" ", "\t"}
\* the repetitions a + or a * may take: more than any text is long
Inf == 1000

Min(a, b) == IF a < b THEN a ELSE b

(***************************************************************************)
(* The regular expressions of TextCleaner.  Every pattern of the class is  *)
(* a sequence of items, an item being a character class with a greedy      *)
(* repetition {min,max}, optionally anchored by ^ and $ under re.MULTILINE.*)
(***************************************************************************)
It(cls, lo, hi) == [cls |-> cls, min |-> lo, max |-> hi]
Re(bol, items, eol) == [bol |-> bol, items |-> items, eol |-> eol]

\* ^ under re.MULTILINE: at the start of the text or right after a newline
AtBol(s, p) == p = 1 \/ s[p - 1] = "\n"
\* $ under re.MULTILINE: at the end of the text or right before a newline
AtEol(s, p) == p = Len(s) + 1 \/ s[p] = "\n"

\* the longest run of characters of cls from position p, at most hi long
RECURSIVE RunLen(_, _, _, _)
RunLen(s, p, cls, hi) ==
    IF hi = 0 \/ p > Len(s) \/ s[p] \notin cls THEN 0
    ELSE 1 + RunLen(s, p + 1, cls, hi - 1)

\* The backtracking matcher: item k onwards matched from position p; the
\* position after the match, or 0 when there is none.  A greedy item takes
\* the longest run first and gives characters back one at a time.
RECURSIVE MatchFrom(_, _, _, _)
RECURSIVE TryCounts(_, _, _, _, _)
MatchFrom(re, k, s, p) ==
    IF k > Len(re.items)
    THEN IF re.eol /\ ~AtEol(s, p) THEN 0 ELSE p
    ELSE TryCounts(re, k, s, p, RunLen(s, p, re.items[k].cls, re.items[k].max))
TryCounts(re, k, s, p, n) ==
    IF n < re.items[k].min THEN 0
    ELSE LET r == MatchFrom(re, k + 1, s, p + n)
         IN IF r # 0 THEN r ELSE TryCounts(re, k, s, p, n - 1)

MatchAt(re, s, p) == IF re.bol /\ ~AtBol(s, p) THEN 0 ELSE MatchFrom(re, 1, s, p)

\* re.sub(pattern, repl, s): leftmost non-overlapping matches, left to
\* right (no pattern of the class matches the empty string)
RECURSIVE SubFrom(_, _, _, _)
SubFrom(re, repl, s, p) ==
    IF p > Len(s) THEN <<>>
    ELSE LET e == MatchAt(re, s, p)
         IN IF e # 0 THEN repl \o SubFrom(re, repl, s, e)
            ELSE <<s[p]>> \o SubFrom(re, repl, s, p + 1)
Sub(re, repl, s) == SubFrom(re, repl, s, 1)

RECURSIVE SubAll(_, _)
\* a list of (pattern, replacement) pairs applied in order
SubAll(pairs, s) ==
    IF pairs = <<>> THEN s
    ELSE SubAll(Tail(pairs), Sub(pairs[1][1], pairs[1][2], s))

\* TextCleaner.__init__: patterns_to_remove
patterns_to_remove ==
    << <<Re(FALSE, <<It({NUL}, 1, 1)>>, FALSE), <<>> >>,
       <<Re(FALSE, <<It({"\f"}, 1, 1)>>, FALSE), <<>> >>,
       <<Re(FALSE, <<It({"\r"}, 1, 1)>>, FALSE), <<>> >> >>

\* TextCleaner.__init__: patterns_to_replace
patterns_to_replace ==
    << <<Re(FALSE, <<It(HSpace, 1, Inf)>>, FALSE), <<" ">> >>,
       <<Re(FALSE, <<It({"\n"}, 3, Inf)>>, FALSE), <<"\n", "\n">> >>,
       <<Re(FALSE, <<It({"."}, 4, Inf)>>, FALSE), <<".", ".", ".">> >>,
       <<Re(FALSE, <<It({"-"}, 3, Inf)>>, FALSE), <<"-", "-", "-">> >> >>

\* TextCleaner.remove_special_chars
remove_special_chars(text) == SubAll(patterns_to_remove, text)

\* TextCleaner.fix_common_ocr_errors
fix_common_ocr_errors(text) ==
    SubAll(<< <<Re(FALSE, <<It({NIKHAHIT}, 1, 1), It({SARA_AA}, 1, 1)>>, FALSE),
                <<SARA_AM>> >>,
              <<Re(FALSE, <<It({SARA_E}, 1, 1), It({SARA_E}, 1, 1)>>, FALSE),
                <<SARA_AE>> >> >>, text)

\* r'^\d{1,3}\s*$'
PageNumberLine == Re(TRUE, <<It(Digit, 1, 3), It(Space, 0, Inf)>>, TRUE)
\* r'^\s*หน้า\s*\d+\s*$'
ThaiPageLine ==
    Re(TRUE, <<It(Space, 0, Inf), It({HO_HIP}, 1, 1), It({NO_NU}, 1, 1),
               It({MAI_THO}, 1, 1), It({SARA_AA}, 1, 1), It(Space, 0, Inf),
               It(Digit, 1, Inf), It(Space, 0, Inf)>>, TRUE)
\* r'^\s*Page\s*\d+\s*$' with re.IGNORECASE
EnglishPageLine ==
    Re(TRUE, <<It(Space, 0, Inf), It({"P", "p"}, 1, 1), It({"A", "a"}, 1, 1),
               It({"G", "g"}, 1, 1), It({"E", "e"}, 1, 1), It(Space, 0, Inf),
               It(Digit, 1, Inf), It(Space, 0, Inf)>>, TRUE)

\* TextCleaner.remove_page_numbers
remove_page_numbers(text) ==
    SubAll(<< <<PageNumberLine, <<>> >>, <<ThaiPageLine, <<>> >>,
              <<EnglishPageLine, <<>> >> >>, text)

\* TextCleaner.remove_headers_footers: '- 1 -' and '[ 1 ]'
remove_headers_footers(text) ==
    SubAll(<< <<Re(TRUE, <<It(Space, 0, Inf), It({"-"}, 1, 1), It(Space, 0, Inf),
                          It(Digit, 1, Inf), It(Space, 0, Inf), It({"-"}, 1, 1),
                          It(Space, 0, Inf)>>, TRUE), <<>> >>,
              <<Re(TRUE, <<It(Space, 0, Inf), It({"["}, 1, 1), It(Space, 0, Inf),
                          It(Digit, 1, Inf), It(Space, 0, Inf), It({"]"}, 1, 1),
                          It(Space, 0, Inf)>>, TRUE), <<>> >> >>, text)

\* str.strip(): white space taken off both ends
RECURSIVE LStrip(_)
LStrip(s) == IF s # <<>> /\ Head(s) \in Space THEN LStrip(Tail(s)) ELSE s
RECURSIVE RStrip(_)
RStrip(s) ==
    IF s # <<>> /\ s[Len(s)] \in Space THEN RStrip(SubSeq(s, 1, Len(s) - 1)) ELSE s
Strip(s) == RStrip(LStrip(s))

\* text.split('\n') followed by line.strip() for each line and '\n'.join
RECURSIVE StripLinesFrom(_, _, _)
StripLinesFrom(s, p, line) ==
    IF p > Len(s) THEN Strip(line)
    ELSE IF s[p] = "\n" THEN Strip(line) \o <<"\n">> \o StripLinesFrom(s, p + 1, <<>>)
    ELSE StripLinesFrom(s, p + 1, Append(line, s[p]))

\* TextCleaner.normalize_whitespace
normalize_whitespace(text) == StripLinesFrom(SubAll(patterns_to_replace, text), 1, <<>>)

\* TextCleaner.clean with its default flags
clean(text) ==
    IF text = <<>> THEN <<>>
    ELSE Strip(normalize_whitespace(
             remove_headers_footers(remove_page_numbers(
                 fix_common_ocr_errors(remove_special_chars(text))))))

(***************************************************************************)
(* Optional arguments: None is the empty tuple, a given value v is <<v>>.  *)
(***************************************************************************)
None == <<>>
Some(v) == <<v>>
\* Python's `x or default`: None and every falsy value (0, 0.0) give way
OrDefault(x, default) == IF x = None \/ x[1] = 0 THEN default ELSE x[1]

(***************************************************************************)
(* LegalRetriever.retrieve_relevant.  `ranked` is what the index holds for *)
(* the query, nearest first: a sequence of [doc, score], the score being   *)
(* the cosine distance in tenths.                                          *)
(***************************************************************************)
\* VectorDBManager.similarity_search_with_score: the k nearest, [] when the
\* backend raises
similarity_search_with_score(ranked, k, fails) ==
    IF fails THEN <<>>
    ELSE SubSeq(ranked, 1, Min(OrDefault(k, NUM_RELEVANT_DOCS), Len(ranked)))

\* LegalRetriever.retrieve_with_scores
retrieve_with_scores(ranked, k, fails) ==
    similarity_search_with_score(ranked, Some(OrDefault(k, NUM_RELEVANT_DOCS)), fails)

\* the threshold retrieve_relevant filters with: threshold or self.threshold
EffectiveThreshold(threshold) == OrDefault(threshold, RETRIEVAL_THRESHOLD)

\* the loop of retrieve_relevant: keep doc iff score < (2 - threshold)
RelevantOf(results_with_scores, threshold) ==
    SelectSeq(results_with_scores, LAMBDA r : r.score < 20 - threshold)

\* LegalRetriever.retrieve_relevant, as the record of one call
retrieve_relevant(ranked, k, threshold, fails) ==
    LET results_with_scores ==
            retrieve_with_scores(ranked, Some(OrDefault(k, NUM_RELEVANT_DOCS)), fails)
    IN [k |-> k, threshold |-> threshold, seen |-> results_with_scores,
        kept |-> RelevantOf(results_with_scores, EffectiveThreshold(threshold))]

(***************************************************************************)
(* Files, chunks and the index.                                            *)
(*                                                                         *)
(* A file name is <<stem, extension>>.  A chunk is a record [source, page, *)
(* chunk_index, page_content].  The collection gives every added document  *)
(* an id of its own, so the index is a bag of chunks: a function from the  *)
(* chunks it holds to how many copies it holds.                            *)
(***************************************************************************)
LawTxt == <<"law", ".txt">>
DocPdf == <<"doc", ".PDF">>
NotesMd == <<"notes", ".md">>
FilePaths == {LawTxt, DocPdf, NotesMd}
\* the names delete_source is called with: one differs from a stored name
\* by case only
SourceNames == {LawTxt, DocPdf, <<"doc", ".pdf">>}

\* str.lower() on the extensions in use
Lower(ext) == IF ext = ".PDF" THEN ".pdf" ELSE ext

\* a test that takes every extension
is_supported_Any(file_path) == TRUE

\* FileLoader.is_supported
is_supported(file_path) == Lower(file_path[2]) \in SUPPORTED_EXTENSIONS

\* the texts the splitter hands over as chunks of a page
RawTexts == { <<"a">>, <<"1", "\n">> }
ChunkLists == UNION {[1..n -> RawTexts] : n \in 0..MaxChunks}

\* FileLoader.load_document + split_documents: the loader of a .pdf stamps a
\* page (its first page is 0), the loaders of .txt and .docx stamp none
LoadedChunks(file_path, raws) ==
    [i \in 1..Len(raws) |->
        [page_content |-> raws[i],
         page |-> IF Lower(file_path[2]) = ".pdf" THEN Some(0) ELSE None]]

\* add_metadata numbering the chunks from 1
add_metadata_FromOne(chunks, source_name) ==
    [i \in 1..Len(chunks) |->
        [source |-> source_name, chunk_index |-> i,
         page |-> IF chunks[i].page = None THEN 1 ELSE chunks[i].page[1],
         page_content |-> chunks[i].page_content]]

\* add_metadata numbering the chunks downwards
add_metadata_Descending(chunks, source_name) ==
    [i \in 1..Len(chunks) |->
        [source |-> source_name, chunk_index |-> Len(chunks) - i,
         page |-> IF chunks[i].page = None THEN 1 ELSE chunks[i].page[1],
         page_content |-> chunks[i].page_content]]

\* FileLoader.add_metadata
add_metadata(chunks, source_name) ==
    [i \in 1..Len(chunks) |->
        [source |-> source_name, chunk_index |-> i - 1,
         page |-> IF chunks[i].page = None THEN 1 ELSE chunks[i].page[1],
         page_content |-> chunks[i].page_content]]

\* clean_chunks without its test: every cleaned chunk is kept
KeepsChunk_Always(cleaned_content) == TRUE

\* the test of clean_chunks: if cleaned_content.strip()
KeepsChunk(cleaned_content) == Strip(cleaned_content) # <<>>

\* FileLoader.clean_chunks
RECURSIVE clean_chunks(_)
clean_chunks(chunks) ==
    IF chunks = <<>> THEN <<>>
    ELSE LET cleaned_content == clean(Head(chunks).page_content)
         IN (IF KeepsChunk(cleaned_content)
             THEN <<[Head(chunks) EXCEPT !.page_content = cleaned_content]>>
             ELSE <<>>) \o clean_chunks(Tail(chunks))

\* FileLoader.load_and_split, after load_document
load_and_split(file_path, raws) ==
    clean_chunks(add_metadata(LoadedChunks(file_path, raws), file_path))

EmptyIndex == [c \in {} |-> 0]
RECURSIVE SumOver(_, _)
SumOver(idx, cs) ==
    IF cs = {} THEN 0
    ELSE LET c == CHOOSE c \in cs : TRUE IN idx[c] + SumOver(idx, cs \ {c})
\* collection.count()
CountOf(idx) == SumOver(idx, DOMAIN idx)
\* the chunks the collection holds under where={"source": source_name}
ChunksOfSource(idx, source_name) == {c \in DOMAIN idx : c.source = source_name}
CountOfSource(idx, source_name) == SumOver(idx, ChunksOfSource(idx, source_name))

\* db.add_documents(documents)
RECURSIVE AddAll(_, _)
AddAll(idx, documents) ==
    IF documents = <<>> THEN idx
    ELSE LET c == Head(documents)
             cs == DOMAIN idx \cup {c}
         IN AddAll([x \in cs |-> IF x = c
                                 THEN (IF c \in DOMAIN idx THEN idx[c] + 1 ELSE 1)
                                 ELSE idx[x]], Tail(documents))

\* the deletion matching the source without regard to the case of its
\* extension
WithoutSource_AnyCase(idx, source_name) ==
    [c \in {d \in DOMAIN idx :
                <<d.source[1], Lower(d.source[2])>>
                    # <<source_name[1], Lower(source_name[2])>>} |-> idx[c]]

\* collection.delete(ids=ids_to_delete) for the ids of source_name
WithoutSource(idx, source_name) ==
    [c \in DOMAIN idx \ ChunksOfSource(idx, source_name) |-> idx[c]]

\* The distance the embedding gives a chunk from a query that is nearest to
\* the text of source `near` (None: to no source in particular), in tenths.
\* Distinct chunks lie at distinct distances.
Distance(near, c) ==
    (IF near # None /\ near[1] = c.source THEN 3 ELSE 11) + c.chunk_index
        + (IF c.source = LawTxt THEN 0 ELSE 4)

RECURSIVE Copies(_, _)
Copies(c, n) == IF n = 0 THEN <<>> ELSE <<c>> \o Copies(c, n - 1)

\* the collection's chunks, nearest first
RECURSIVE Ranked(_, _)
Ranked(idx, near) ==
    IF DOMAIN idx = {} THEN <<>>
    ELSE LET c == CHOOSE c \in DOMAIN idx :
                     \A d \in DOMAIN idx : Distance(near, c) <= Distance(near, d)
         IN Copies(c, idx[c]) \o Ranked([x \in DOMAIN idx \ {c} |-> idx[x]], near)

\* VectorDBManager.get_document_count: 0 when the backend raises
get_document_count(idx, fails) == IF fails THEN 0 ELSE CountOf(idx)

\* VectorDBManager.get_all_sources: [] when the backend raises
get_all_sources(idx, fails) == IF fails THEN {} ELSE {c.source : c \in DOMAIN idx}

\* VectorDBManager.similarity_search: the k nearest, [] when the backend raises
similarity_search(idx, near, k, fails) ==
    IF fails THEN <<>>
    ELSE SubSeq(Ranked(idx, near), 1, Min(OrDefault(k, NUM_RELEVANT_DOCS), CountOf(idx)))

\* retrieve always with the default k
retrieve_DefaultK(idx, near, k, fails) ==
    similarity_search(idx, near, Some(NUM_RELEVANT_DOCS), fails)

\* LegalRetriever.retrieve
retrieve(idx, near, k, fails) ==
    similarity_search(idx, near, Some(OrDefault(k, NUM_RELEVANT_DOCS)), fails)

\* has_documents with count >= 0 for count > 0
has_documents_Always(count) == count >= 0

\* LegalRetriever.has_documents
has_documents(count) == count > 0

\* VectorDBManager.add_documents: the index afterwards
IndexAfterAdd(idx, documents, fails) ==
    IF documents = <<>> \/ fails THEN idx ELSE AddAll(idx, documents)
\* add_documents returning the number handed over whatever happened
add_documents_Counted(documents, fails) == Len(documents)

\* VectorDBManager.add_documents: what it returns
add_documents(documents, fails) ==
    IF documents = <<>> \/ fails THEN 0 ELSE Len(documents)

\* VectorDBManager.delete_by_source: the index afterwards
IndexAfterDelete(idx, source_name, fails) ==
    IF fails THEN idx ELSE WithoutSource(idx, source_name)
\* VectorDBManager.delete_by_source: what it returns
delete_by_source(idx, source_name, fails) ==
    IF fails THEN FALSE ELSE ChunksOfSource(idx, source_name) # {}

\* a clear that reports success and leaves the collection as it was
IndexAfterClear_Kept(idx, fails) == idx

\* VectorDBManager.clear_database: the index afterwards (the directory is
\* removed and made again, and __init__ opens the handle on it)
IndexAfterClear(idx, fails) == IF fails THEN idx ELSE EmptyIndex
\* VectorDBManager.clear_database: what it returns
clear_database(fails) == ~fails

(***************************************************************************)
(* The results of LegalAIEngine.chat and summarize.                        *)
(***************************************************************************)
\* a question is a text; these two are about the text of one source each
Questions == {<<"law", "?">>, <<"doc", "?">>}
\* the source whose text a question is nearest to
NearestTo(question) == IF question[1] = "law" THEN Some(LawTxt) ELSE Some(DocPdf)
\* what the backends raise
LlmErrors == {"timeout", "connection refused"}

NoResult == [none |-> TRUE]
Answer(tmpl, arg) == [tmpl |-> tmpl, arg |-> arg]

\* chat: the index holds no documents
NoContextResult ==
    [success |-> FALSE, answer |-> Answer("NO_CONTEXT_PROMPT", <<>>),
     sources |-> <<>>, has_context |-> FALSE]

\* the LOW_RELEVANCE message without the question filled in
LowRelevanceResult_Untemplated(question) ==
    [success |-> FALSE, answer |-> Answer("LOW_RELEVANCE_PROMPT", <<>>),
     sources |-> <<>>, has_context |-> FALSE]

\* chat: the retrieval is empty
LowRelevanceResult(question) ==
    [success |-> FALSE, answer |-> Answer("LOW_RELEVANCE_PROMPT", question),
     sources |-> <<>>, has_context |-> FALSE]

\* the test that guards the model call without its effect
NoDocs_Never(retrieved) == FALSE

\* chat and summarize: if not docs
NoDocs(retrieved) == retrieved = <<>>

\* citations with every {source, page} named once
RECURSIVE SourcesOf_Deduplicated(_)
SourcesOf_Deduplicated(retrieved) ==
    IF retrieved = <<>> THEN <<>>
    ELSE LET rest == SourcesOf_Deduplicated(SubSeq(retrieved, 1, Len(retrieved) - 1))
             e == [source |-> retrieved[Len(retrieved)].source,
                   page |-> retrieved[Len(retrieved)].page]
         IN IF \E i \in 1..Len(rest) : rest[i] = e THEN rest ELSE Append(rest, e)

\* chat: the citations, one per retrieved chunk
SourcesOf(retrieved) ==
    [i \in 1..Len(retrieved) |-> [source |-> retrieved[i].source, page |-> retrieved[i].page]]

\* chat: the model answered
ChatSuccessResult(retrieved, response) ==
    [success |-> TRUE, answer |-> Answer("response+disclaimer", response),
     sources |-> SourcesOf(retrieved), has_context |-> TRUE,
     num_sources |-> Len(retrieved)]

\* an except branch that answers as if the model had
ChatErrorResult_Answered(e) ==
    [success |-> TRUE, answer |-> Answer("response", <<"generated">>), sources |-> <<>>,
     error |-> e]

\* chat: the except branch
ChatErrorResult(e) ==
    [success |-> FALSE, answer |-> Answer("error", <<e>>), sources |-> <<>>, error |-> e]

\* the text the model generates
Generated == <<"generated">>

(***************************************************************************)
(* State.                                                                  *)
(***************************************************************************)
VARIABLES
    text,       \* cleaner: the raw text handed to clean
    out1,       \* cleaner: clean(text)
    out2,       \* cleaner: clean(clean(text))
    cphase,     \* cleaner: "input", "once", "twice"
    hits,       \* retriever: the index's ranking for the query, nearest first
    relLast,    \* retriever: the last retrieve_relevant call, <<>> before any
    index,      \* engine: the collection, a bag of chunks
    pc,         \* engine: "idle", or where the running chat call stands
    op,         \* engine: the operation called last
    arg,        \* engine: its argument
    log,        \* engine: the backend calls of this call, in order
    docs,       \* engine: the chunks this call retrieved or handed to the index
    err,        \* engine: what the last failed backend call of this call raised
    result,     \* engine: what the call returned
    countBefore, \* engine: collection.count() when the call began
    holders,    \* adapter: who holds which VectorDBManager object
    db,         \* adapter: the handle (self.db) of every VectorDBManager object
    last,       \* adapter: the last call of the adapter and what it returned
    stored,     \* storage: the files of the data directory, each with its age in days
    batch,      \* engine: the running ingest_multiple_files call
    context,    \* retriever: what format_context returned last
    retention,  \* retention: the configured window and the last deletion
    life,       \* lifecycle: LifecycleManager._started and what its calls did
    llm         \* model client: OllamaClient's fields and the engine's handle

cleanVars == <<text, out1, out2, cphase>>
relVars == <<hits, relLast>>
engineVars == <<index, pc, op, arg, log, docs, err, result, countBefore>>
adapterVars == <<holders, db, last>>
storeVars == <<stored, batch, context, retention>>
lifeVars == <<life, llm>>
moreVars == <<adapterVars, storeVars, lifeVars>>
vars == <<text, out1, out2, cphase, hits, relLast, index, pc, op, arg, log, docs, err, result,
          countBefore, holders, db, last, stored, batch, context, retention, life, llm>>

\* the variables of the adapter when it is not what runs
NoHolders == [c \in {} |-> 0]
NoCall ==
    [op |-> "none", failed |-> FALSE, calls |-> 0, outage |-> 0, dbFails |-> FALSE,
     n |-> 0, docs |-> <<>>, sources |-> {}, ok |-> FALSE]
\* an empty directory, no batch running, no deletion made
NoFiles == [f \in {} |-> 0]
NoBatch == [paths |-> <<>>, todo |-> <<>>, results |-> <<>>, total_chunks |-> 0, pieces |-> 0]
NoDeletion == [retention_days |-> 0, days |-> <<>>, deleted |-> {}, deleted_count |-> 0]
\* the application not started, no model client made
NoLife ==
    [started |-> FALSE, hooks |-> 0, startups |-> 0, applied |-> 0, cleared |-> 0,
     temp |-> NoFiles, status |-> "none", phase |-> "running", pending |-> 0]
NoClient ==
    [model_name |-> "", temperature |-> 0, client_llm |-> <<>>, engine_llm |-> <<>>,
     invoked |-> <<>>, current_model |-> ""]

\* the characters texts are built from
Alphabet == {"a", "1", " ", "\n", "-"}

(***************************************************************************)
(* The normalizer on its own: a text is typed in and cleaned twice.        *)
(***************************************************************************)
CleanInit ==
    /\ text = <<>> /\ out1 = <<>> /\ out2 = <<>> /\ cphase = "input"
    /\ hits = <<>> /\ relLast = <<>>
    /\ index = EmptyIndex /\ pc = "idle" /\ op = "none" /\ arg = <<>>
    /\ log = <<>> /\ docs = <<>> /\ err = "" /\ result = NoResult /\ countBefore = 0
    /\ holders = NoHolders /\ db = NoHolders /\ last = NoCall
    /\ stored = NoFiles /\ batch = NoBatch /\ context = <<>> /\ retention = NoDeletion
    /\ life = NoLife /\ llm = NoClient

\* one more character of the raw text
TypeChar ==
    /\ cphase = "input" /\ Len(text) < MaxLen
    /\ \E c \in Alphabet : text' = Append(text, c)
    /\ UNCHANGED <<out1, out2, cphase>>
    /\ UNCHANGED <<relVars, engineVars, moreVars>>

\* cleaned = text_cleaner.clean(raw)
CleanOnce ==
    /\ cphase = "input"
    /\ out1' = clean(text) /\ cphase' = "once"
    /\ UNCHANGED <<text, out2>>
    /\ UNCHANGED <<relVars, engineVars, moreVars>>

\* text_cleaner.clean(cleaned)
CleanTwice ==
    /\ cphase = "once"
    /\ out2' = clean(out1) /\ cphase' = "twice"
    /\ UNCHANGED <<text, out1>>
    /\ UNCHANGED <<relVars, engineVars, moreVars>>

CleanNext == TypeChar \/ CleanOnce \/ CleanTwice
SpecClean == CleanInit /\ [][CleanNext]_vars

(***************************************************************************)
(* The retriever on its own: a fixed query and index, retrieve_relevant    *)
(* called again and again with any k and threshold.                        *)
(***************************************************************************)
\* cosine distances in tenths, and the thresholds and k a caller passes
Distances == {0, 9, 10, 16, 17, 18, 20}
ThresholdArgs == {None} \cup {Some(t) : t \in 0..10}
KArgs == {None, Some(1), Some(2)}

\* the rankings an index can hold: ascending distance, doc i at rank i
AscendingRankings ==
    {r \in UNION {{[i \in 1..n |-> [doc |-> i, score |-> d[i]]] : d \in [1..n -> Distances]} :
                    n \in 0..MaxHits} :
        \A i \in 1..Len(r) - 1 : r[i].score <= r[i + 1].score}

RelInit ==
    /\ text = <<>> /\ out1 = <<>> /\ out2 = <<>> /\ cphase = "input"
    /\ hits \in AscendingRankings /\ relLast = <<>>
    /\ index = EmptyIndex /\ pc = "idle" /\ op = "none" /\ arg = <<>>
    /\ log = <<>> /\ docs = <<>> /\ err = "" /\ result = NoResult /\ countBefore = 0
    /\ holders = NoHolders /\ db = NoHolders /\ last = NoCall
    /\ stored = NoFiles /\ batch = NoBatch /\ context = <<>> /\ retention = NoDeletion
    /\ life = NoLife /\ llm = NoClient

RetrieveRelevant ==
    /\ \E k \in KArgs, threshold \in ThresholdArgs, fails \in BOOLEAN :
           relLast' = <<retrieve_relevant(hits, k, threshold, fails)>>
    /\ UNCHANGED <<hits>>
    /\ UNCHANGED <<cleanVars, engineVars, moreVars>>

RelNext == RetrieveRelevant
SpecRetrieve == RelInit /\ [][RelNext]_vars

(***************************************************************************)
(* The engine: LegalAIEngine over one VectorDBManager.  One call runs at a *)
(* time; chat is the only call that waits (time.sleep) between its steps.  *)
(* Every backend call may raise.                                           *)
(***************************************************************************)
Init ==
    /\ text = <<>> /\ out1 = <<>> /\ out2 = <<>> /\ cphase = "input"
    /\ hits = <<>> /\ relLast = <<>>
    /\ index = EmptyIndex /\ pc = "idle" /\ op = "none" /\ arg = <<>>
    /\ log = <<>> /\ docs = <<>> /\ err = "" /\ result = NoResult /\ countBefore = 0
    /\ holders = NoHolders /\ db = NoHolders /\ last = NoCall
    /\ stored = NoFiles /\ batch = NoBatch /\ context = <<>> /\ retention = NoDeletion
    /\ life = NoLife /\ llm = NoClient

\* a process_file whose failures still carry a chunk
process_file_ChunksOnFailure(file_path, exists, parses, raws) ==
    IF is_supported(file_path) /\ exists /\ parses
    THEN [success |-> TRUE, file_name |-> file_path,
          num_chunks |-> Len(load_and_split(file_path, raws)),
          chunks |-> load_and_split(file_path, raws)]
    ELSE [success |-> FALSE, error |-> "parse error",
          chunks |-> load_and_split(LawTxt, <<<<"a">>>>)]

\* FileLoader.process_file: its result for a file that is there (exists),
\* that the loader can read (parses) and that splits into raws
process_file(file_path, exists, parses, raws) ==
    IF ~is_supported(file_path)
    THEN [success |-> FALSE, error |-> "unsupported file type", chunks |-> <<>>]
    ELSE IF ~exists
    THEN [success |-> FALSE, error |-> "file not found", chunks |-> <<>>]
    ELSE IF ~parses
    THEN [success |-> FALSE, error |-> "parse error", chunks |-> <<>>]
    ELSE LET chunks == load_and_split(file_path, raws)
         IN [success |-> TRUE, file_name |-> file_path, num_chunks |-> Len(chunks),
             chunks |-> chunks]

\* LegalAIEngine.ingest_file: what it returns
ingest_result(processed, num_added, total_documents) ==
    IF ~processed.success THEN processed
    ELSE [success |-> TRUE, file_name |-> processed.file_name,
          num_chunks |-> num_added, total_documents |-> total_documents]

\* LegalAIEngine.ingest_file
IngestFile ==
    /\ pc = "idle"
    /\ \E file_path \in FilePaths :
       \E exists \in (IF is_supported(file_path) THEN BOOLEAN ELSE {TRUE}) :
       \E parses \in (IF is_supported(file_path) /\ exists THEN BOOLEAN ELSE {TRUE}) :
       \E raws \in (IF is_supported(file_path) /\ exists /\ parses
                    THEN ChunkLists ELSE {<<>>}) :
       \E processed \in {process_file(file_path, exists, parses, raws)} :
       \E addFails \in (IF processed.chunks # <<>> THEN BOOLEAN ELSE {FALSE}) :
       \E countFails \in (IF processed.success THEN BOOLEAN ELSE {FALSE}) :
       \E index2 \in {IndexAfterAdd(index, processed.chunks, addFails)} :
           /\ CountOf(index) + Len(processed.chunks) <= MaxIndexed
           /\ index' = index2
           /\ docs' = processed.chunks
           /\ log' = (IF processed.chunks # <<>>
                      THEN <<IF addFails THEN "add_fail" ELSE "add">> ELSE <<>>)
                     \o (IF processed.success
                         THEN <<IF countFails THEN "count_fail" ELSE "count">> ELSE <<>>)
           /\ result' = ingest_result(processed,
                                      add_documents(processed.chunks, addFails),
                                      get_document_count(index2, countFails))
           /\ arg' = file_path
    /\ op' = "ingest_file" /\ pc' = "idle" /\ err' = "" /\ countBefore' = CountOf(index)
    /\ UNCHANGED <<cleanVars, relVars, moreVars>>

\* LegalAIEngine.chat up to the first model call
ChatBegin ==
    /\ pc = "idle"
    /\ \E question \in Questions, countFails \in BOOLEAN, searchFails \in BOOLEAN :
        LET count == get_document_count(index, countFails)
            retrieved == retrieve(index, NearestTo(question), Some(NUM_RELEVANT_DOCS),
                                  searchFails)
        IN /\ ~(countFails /\ searchFails)
           /\ arg' = question
           /\ IF ~has_documents(count)
              THEN /\ ~searchFails
                   /\ log' = <<IF countFails THEN "count_fail" ELSE "count">>
                   /\ docs' = <<>>
                   /\ result' = NoContextResult
                   /\ pc' = "idle"
              ELSE /\ log' = <<"count", IF searchFails THEN "search_fail" ELSE "search">>
                   /\ docs' = retrieved
                   /\ IF NoDocs(retrieved)
                      THEN result' = LowRelevanceResult(question) /\ pc' = "idle"
                      ELSE result' = NoResult /\ pc' = "llm"
    /\ op' = "chat" /\ err' = "" /\ countBefore' = CountOf(index)
    /\ UNCHANGED <<index, cleanVars, relVars, moreVars>>

\* the attempts of this call so far
IsLlmCall(e) == e \in {"llm_ok", "llm_fail"}
Attempts(l) == Len(SelectSeq(l, IsLlmCall))
Pauses(l) == Len(SelectSeq(l, LAMBDA e : e = "sleep"))

\* the retry test giving up one attempt early
RetriesAfter_OneFewer(attempt) == attempt < max_retries - 2

\* chat: whether a failed attempt (0-based) is followed by another
RetriesAfter(attempt) == attempt < max_retries - 1

\* LegalAIEngine.chat: one pass of the retry loop, chain.invoke and what
\* follows it
LlmInvoke ==
    /\ pc = "llm"
    /\ \E ok \in BOOLEAN, e \in LlmErrors :
        LET attempt == Attempts(log)
        IN IF ok
           THEN /\ e = CHOOSE x \in LlmErrors : TRUE
                /\ log' = Append(log, "llm_ok")
                /\ result' = ChatSuccessResult(docs, Generated)
                /\ pc' = "idle" /\ err' = err
           ELSE /\ log' = Append(log, "llm_fail")
                /\ err' = e
                /\ IF RetriesAfter(attempt)
                   THEN result' = NoResult /\ pc' = "sleep"
                   ELSE result' = ChatErrorResult(e) /\ pc' = "idle"
    /\ UNCHANGED <<index, op, arg, docs, countBefore, cleanVars, relVars, moreVars>>

\* LegalAIEngine.chat: time.sleep(3) between two attempts
Sleep ==
    /\ pc = "sleep"
    /\ log' = Append(log, "sleep")
    /\ pc' = "llm"
    /\ UNCHANGED <<index, op, arg, docs, err, result, countBefore, cleanVars, relVars, moreVars>>

\* summarize: no chunk was retrieved
SummaryEmptyResult ==
    [success |-> FALSE, summary |-> Answer("no documents to summarize", <<>>),
     sources |-> {}]

\* LegalAIEngine.summarize
Summarize ==
    /\ pc = "idle"
    /\ \E source_name \in {None, Some(LawTxt), Some(DocPdf)},
          searchFails \in BOOLEAN, ok \in BOOLEAN, e \in LlmErrors :
        LET retrieved == retrieve(index, source_name, Some(SUMMARY_K), searchFails)
        IN /\ arg' = (IF source_name = None THEN <<>> ELSE source_name[1])
           /\ docs' = retrieved
           /\ IF NoDocs(retrieved)
              THEN /\ ok /\ e = CHOOSE x \in LlmErrors : TRUE
                   /\ searchFails \/ DOMAIN index = {}
                   /\ log' = <<IF searchFails THEN "search_fail" ELSE "search">>
                   /\ err' = ""
                   /\ result' = SummaryEmptyResult
              ELSE IF ok
              THEN /\ e = CHOOSE x \in LlmErrors : TRUE
                   /\ log' = <<"search", "llm_ok">>
                   /\ err' = ""
                   /\ result' = [success |-> TRUE, summary |-> Answer("response", Generated),
                                 sources |-> {retrieved[i].source : i \in 1..Len(retrieved)},
                                 num_chunks_used |-> Len(retrieved)]
              ELSE /\ log' = <<"search", "llm_fail">>
                   /\ err' = e
                   /\ result' = [success |-> FALSE, summary |-> Answer("error", <<e>>),
                                 error |-> e]
    /\ op' = "summarize" /\ pc' = "idle" /\ countBefore' = CountOf(index)
    /\ UNCHANGED <<index, cleanVars, relVars, moreVars>>

\* LegalAIEngine.delete_source
DeleteSource ==
    /\ pc = "idle"
    /\ \E source_name \in SourceNames, fails \in BOOLEAN :
        /\ arg' = source_name
        /\ index' = IndexAfterDelete(index, source_name, fails)
        /\ log' = <<IF fails THEN "delete_fail" ELSE "delete">>
        /\ result' = [success |-> delete_by_source(index, source_name, fails)]
    /\ op' = "delete_source" /\ pc' = "idle" /\ docs' = <<>> /\ err' = ""
    /\ countBefore' = CountOf(index)
    /\ UNCHANGED <<cleanVars, relVars, moreVars>>

\* LegalAIEngine.clear_all_data
ClearAllData ==
    /\ pc = "idle"
    /\ \E fails \in BOOLEAN :
        /\ index' = IndexAfterClear(index, fails)
        /\ log' = <<IF fails THEN "clear_fail" ELSE "clear">>
        /\ result' = [success |-> clear_database(fails)]
    /\ op' = "clear_all_data" /\ pc' = "idle" /\ arg' = <<>> /\ docs' = <<>> /\ err' = ""
    /\ countBefore' = CountOf(index)
    /\ UNCHANGED <<cleanVars, relVars, moreVars>>

Next == IngestFile \/ ChatBegin \/ LlmInvoke \/ Sleep \/ Summarize \/ DeleteSource
            \/ ClearAllData
Spec == Init /\ [][Next]_vars

(***************************************************************************)
(* The adapter on its own: the VectorDBManager objects, their handles and  *)
(* the embedding backend.  The engine is constructed; it and its retriever *)
(* hold a VectorDBManager, and every call below goes through the engine's. *)
(***************************************************************************)
\* the most calls in a row the embedding backend fails
MaxOutage == 3
\* EmbeddingManager.embed_documents, embed_query: max_retries = 3
embed_max_retries == 3

\* one call of the embedding model (OllamaEmbeddings.embed_documents,
\* embed_query) while its next `outage` calls fail
model_embed(outage) == [ok |-> outage = 0, calls |-> 1]

\* EmbeddingManager.embed_documents and embed_query: the retry loop around
\* the model
embed_documents(outage) ==
    [ok |-> outage < embed_max_retries, calls |-> Min(outage + 1, embed_max_retries)]

\* VectorDBManager.__init__: self.embedding_function =
\* EmbeddingManager.get_embedding_model(), the model itself; Chroma calls it
\* once for an add and once for a query
embedding_function(outage) == model_embed(outage)

\* a constructor that makes a new object at every call
VectorDBManager_new_Fresh(made) == Cardinality(made) + 1

\* VectorDBManager.__new__: the object VectorDBManager() gives when the
\* objects `made` exist: cls._instance, made at the first call
VectorDBManager_new(made) ==
    IF made = {} THEN 1 ELSE CHOOSE i \in made : \A j \in made : i <= j

\* self.db: opened by __init__, opened again by clear_database, or left on
\* a directory that another object removed (it sees what it saw then)
Opened == [state |-> "opened", sees |-> EmptyIndex]
Reopened == [state |-> "reopened", sees |-> EmptyIndex]
Stale(idx) == [state |-> "stale", sees |-> idx]
\* the collection the handle of object i reads
ViewOf(i) == IF db[i].state = "stale" THEN db[i].sees ELSE index

\* the document lists handed to add_documents
DocumentLists ==
    {<<>>} \cup {load_and_split(file_path, <<<<"a">>>>) : file_path \in {LawTxt, DocPdf}}

\* what similarity_search_with_score ranks: the collection, nearest first,
\* each chunk with its distance
Scored(idx, near) ==
    [i \in 1..Len(Ranked(idx, near)) |->
        [doc |-> Ranked(idx, near)[i], score |-> Distance(near, Ranked(idx, near)[i])]]

AdapterInit ==
    /\ text = <<>> /\ out1 = <<>> /\ out2 = <<>> /\ cphase = "input"
    /\ hits = <<>> /\ relLast = <<>>
    /\ index = EmptyIndex /\ pc = "idle" /\ op = "none" /\ arg = <<>>
    /\ log = <<>> /\ docs = <<>> /\ err = "" /\ result = NoResult /\ countBefore = 0
    /\ holders = [c \in {"engine", "retriever"} |-> VectorDBManager_new({})]
    /\ db = [i \in {VectorDBManager_new({})} |-> Opened]
    /\ last = NoCall
    /\ stored = NoFiles /\ batch = NoBatch /\ context = <<>> /\ retention = NoDeletion
    /\ life = NoLife /\ llm = NoClient

\* get_vector_db(), called by one more holder
GetVectorDb ==
    /\ "get_vector_db" \notin DOMAIN holders
    /\ \E i \in {VectorDBManager_new(DOMAIN db)} :
        /\ holders' = [c \in DOMAIN holders \cup {"get_vector_db"} |->
                          IF c = "get_vector_db" THEN i ELSE holders[c]]
        /\ db' = [j \in DOMAIN db \cup {i} |-> IF j \in DOMAIN db THEN db[j] ELSE Opened]
    /\ last' = [NoCall EXCEPT !.op = "get_vector_db"]
    /\ UNCHANGED <<index, pc, op, arg, log, docs, err, result, countBefore>>
    /\ UNCHANGED <<cleanVars, relVars, storeVars, lifeVars>>

\* VectorDBManager.add_documents
AdapterAdd ==
    /\ \E documents \in DocumentLists :
       \E outage \in (IF documents = <<>> THEN {0} ELSE 0..MaxOutage) :
       \E e \in {embedding_function(outage)} :
       \E dbFails \in (IF e.ok /\ documents # <<>> THEN BOOLEAN ELSE {FALSE}) :
       \E fails \in {~e.ok \/ dbFails} :
           /\ CountOf(index) + Len(documents) <= MaxIndexed
           /\ index' = IndexAfterAdd(index, documents, fails)
           /\ last' = [NoCall EXCEPT !.op = "add_documents",
                                     !.failed = (documents # <<>> /\ fails),
                                     !.calls = IF documents = <<>> THEN 0 ELSE e.calls,
                                     !.outage = outage, !.dbFails = dbFails,
                                     !.n = add_documents(documents, fails)]
    /\ UNCHANGED <<holders, db>>
    /\ UNCHANGED <<pc, op, arg, log, docs, err, result, countBefore>>
    /\ UNCHANGED <<cleanVars, relVars, storeVars, lifeVars>>

\* VectorDBManager.similarity_search
AdapterSearch ==
    /\ \E near \in {None, Some(LawTxt)}, k \in {None, Some(1)}, outage \in 0..MaxOutage :
       \E e \in {embedding_function(outage)} :
       \E dbFails \in (IF e.ok THEN BOOLEAN ELSE {FALSE}) :
       \E fails \in {~e.ok \/ dbFails} :
           last' = [NoCall EXCEPT !.op = "similarity_search", !.failed = fails,
                                  !.calls = e.calls, !.outage = outage,
                                  !.dbFails = dbFails,
                                  !.docs = similarity_search(index, near, k, fails)]
    /\ UNCHANGED <<holders, db>>
    /\ UNCHANGED <<index, pc, op, arg, log, docs, err, result, countBefore>>
    /\ UNCHANGED <<cleanVars, relVars, storeVars, lifeVars>>

\* VectorDBManager.similarity_search_with_score
AdapterSearchWithScore ==
    /\ \E near \in {None, Some(LawTxt)}, k \in {None, Some(1)}, outage \in 0..MaxOutage :
       \E e \in {embedding_function(outage)} :
       \E dbFails \in (IF e.ok THEN BOOLEAN ELSE {FALSE}) :
       \E fails \in {~e.ok \/ dbFails} :
           last' = [NoCall EXCEPT !.op = "similarity_search_with_score",
                                  !.failed = fails, !.calls = e.calls,
                                  !.outage = outage, !.dbFails = dbFails,
                                  !.docs = similarity_search_with_score(
                                               Scored(index, near), k, fails)]
    /\ UNCHANGED <<holders, db>>
    /\ UNCHANGED <<index, pc, op, arg, log, docs, err, result, countBefore>>
    /\ UNCHANGED <<cleanVars, relVars, storeVars, lifeVars>>

\* VectorDBManager.get_document_count
AdapterCount ==
    /\ \E dbFails \in BOOLEAN :
           last' = [NoCall EXCEPT !.op = "get_document_count", !.failed = dbFails,
                                  !.dbFails = dbFails,
                                  !.n = get_document_count(index, dbFails)]
    /\ UNCHANGED <<holders, db>>
    /\ UNCHANGED <<index, pc, op, arg, log, docs, err, result, countBefore>>
    /\ UNCHANGED <<cleanVars, relVars, storeVars, lifeVars>>

\* VectorDBManager.get_all_sources
AdapterSources ==
    /\ \E dbFails \in BOOLEAN :
           last' = [NoCall EXCEPT !.op = "get_all_sources", !.failed = dbFails,
                                  !.dbFails = dbFails,
                                  !.sources = get_all_sources(index, dbFails)]
    /\ UNCHANGED <<holders, db>>
    /\ UNCHANGED <<index, pc, op, arg, log, docs, err, result, countBefore>>
    /\ UNCHANGED <<cleanVars, relVars, storeVars, lifeVars>>

\* VectorDBManager.delete_by_source
AdapterDelete ==
    /\ \E source_name \in SourceNames, dbFails \in BOOLEAN :
        /\ index' = IndexAfterDelete(index, source_name, dbFails)
        /\ last' = [NoCall EXCEPT !.op = "delete_by_source", !.failed = dbFails,
                                  !.dbFails = dbFails,
                                  !.ok = delete_by_source(index, source_name, dbFails)]
    /\ UNCHANGED <<holders, db>>
    /\ UNCHANGED <<pc, op, arg, log, docs, err, result, countBefore>>
    /\ UNCHANGED <<cleanVars, relVars, storeVars, lifeVars>>

\* VectorDBManager.clear_database: the directory is removed and made again,
\* and the object the call went through opens its handle again
AdapterClear ==
    /\ \E dbFails \in BOOLEAN :
        /\ index' = IndexAfterClear(index, dbFails)
        /\ db' = IF dbFails THEN db
                 ELSE [j \in DOMAIN db |->
                          IF j = holders["engine"] THEN Reopened ELSE Stale(ViewOf(j))]
        /\ last' = [NoCall EXCEPT !.op = "clear_database", !.failed = dbFails,
                                  !.dbFails = dbFails, !.ok = clear_database(dbFails)]
    /\ UNCHANGED <<holders>>
    /\ UNCHANGED <<pc, op, arg, log, docs, err, result, countBefore>>
    /\ UNCHANGED <<cleanVars, relVars, storeVars, lifeVars>>

AdapterNext ==
    \/ GetVectorDb \/ AdapterAdd \/ AdapterSearch \/ AdapterSearchWithScore
    \/ AdapterCount \/ AdapterSources \/ AdapterDelete \/ AdapterClear
SpecAdapter == AdapterInit /\ [][AdapterNext]_vars

(***************************************************************************)
(* Ingestion with the data directory: FileLoader.process_file step by step *)
(* under LegalAIEngine.ingest_file, called on its own or from the loop of  *)
(* ingest_multiple_files.  log holds the steps of the call in order.       *)
(***************************************************************************)
\* the most pieces the splitter cuts one file into
MaxPieces == 3
\* the most files handed to ingest_multiple_files
MaxFiles == 2

\* what the splitter makes of a file: law.txt is the long one, the others
\* and the files of a batch have one piece at most
Splits == UNION {[1..n -> RawTexts] : n \in 0..MaxPieces}
BatchSplits == UNION {[1..n -> RawTexts] : n \in 0..1}
SplitsOf(file_path) == IF file_path = LawTxt THEN Splits ELSE BatchSplits
PathLists == UNION {[1..n -> FilePaths] : n \in 0..MaxFiles}

\* FileLoader.save_upload: shutil.copy2 into the data directory; the sources
\* are files just written
save_upload(dir, file_path) ==
    [f \in DOMAIN dir \cup {file_path} |-> IF f = file_path THEN 0 ELSE dir[f]]

\* the steps of process_file that run, in order
process_steps(file_path, exists, parses) ==
    <<"is_supported">>
    \o (IF is_supported(file_path) THEN <<"save_upload">> ELSE <<>>)
    \o (IF is_supported(file_path) /\ exists THEN <<"copy2", "load_document">> ELSE <<>>)
    \o (IF is_supported(file_path) /\ exists /\ parses
        THEN <<"split_documents", "add_metadata", "clean_chunks">> ELSE <<>>)

\* ingest_multiple_files: what one result adds to total_chunks, counting
\* every successful file as one
ChunksCounted_One(r) == IF r.success THEN 1 ELSE 0

\* ingest_multiple_files: what one result adds to total_chunks
ChunksCounted(r) == IF r.success THEN r.num_chunks ELSE 0

\* sum(1 for r in results if r.get("success"))
RECURSIVE success_count(_)
success_count(results) ==
    IF results = <<>> THEN 0
    ELSE (IF Head(results).success THEN 1 ELSE 0) + success_count(Tail(results))

\* ingest_multiple_files: what it returns
batch_result(file_paths, results, total_chunks) ==
    [success |-> success_count(results) > 0,
     message |-> <<success_count(results), Len(file_paths)>>,
     total_chunks |-> total_chunks, results |-> results]

\* one call of LegalAIEngine.ingest_file, from the loop (inLoop) or not
RunIngest(file_path, splits, inLoop) ==
    /\ \E exists \in (IF is_supported(file_path) THEN BOOLEAN ELSE {TRUE}) :
       \E parses \in (IF is_supported(file_path) /\ exists THEN BOOLEAN ELSE {TRUE}) :
       \E raws \in (IF is_supported(file_path) /\ exists /\ parses
                    THEN splits ELSE {<<>>}) :
       \E processed \in {process_file(file_path, exists, parses, raws)} :
       \E addFails \in (IF processed.chunks # <<>> THEN BOOLEAN ELSE {FALSE}) :
       \E countFails \in (IF processed.success THEN BOOLEAN ELSE {FALSE}) :
       \E index2 \in {IndexAfterAdd(index, processed.chunks, addFails)} :
       \E r \in {ingest_result(processed, add_documents(processed.chunks, addFails),
                               get_document_count(index2, countFails))} :
           /\ CountOf(index) + Len(processed.chunks) <= MaxIndexed
           /\ stored' = IF is_supported(file_path) /\ exists
                        THEN save_upload(stored, file_path) ELSE stored
           /\ index' = index2
           /\ docs' = processed.chunks
           /\ log' = process_steps(file_path, exists, parses)
                     \o (IF processed.chunks # <<>>
                         THEN <<IF addFails THEN "add_fail" ELSE "add">> ELSE <<>>)
                     \o (IF processed.success
                         THEN <<IF countFails THEN "count_fail" ELSE "count">> ELSE <<>>)
           /\ result' = r
           /\ batch' = IF inLoop
                       THEN [batch EXCEPT !.todo = Tail(@), !.results = Append(@, r),
                                          !.total_chunks = @ + ChunksCounted(r),
                                          !.pieces = Len(raws)]
                       ELSE [NoBatch EXCEPT !.pieces = Len(raws)]
    /\ arg' = file_path /\ err' = "" /\ countBefore' = CountOf(index)

\* LegalAIEngine.ingest_file, called on its own
IngestStored ==
    /\ pc = "idle"
    /\ \E file_path \in FilePaths : RunIngest(file_path, SplitsOf(file_path), FALSE)
    /\ op' = "ingest_file" /\ pc' = "idle"
    /\ UNCHANGED <<cleanVars, relVars, adapterVars, lifeVars, context, retention>>

\* LegalAIEngine.ingest_multiple_files: the call, before its loop
BatchBegin ==
    /\ pc = "idle"
    /\ \E file_paths \in PathLists :
           batch' = [NoBatch EXCEPT !.paths = file_paths, !.todo = file_paths]
    /\ pc' = "batch" /\ op' = "ingest_multiple_files"
    /\ arg' = <<>> /\ log' = <<>> /\ docs' = <<>> /\ err' = "" /\ result' = NoResult
    /\ countBefore' = CountOf(index)
    /\ UNCHANGED <<index, stored, cleanVars, relVars, adapterVars, lifeVars, context, retention>>

\* one turn of the loop: ingest_file on the next path
BatchIngest ==
    /\ pc = "batch" /\ batch.todo # <<>>
    /\ RunIngest(Head(batch.todo), BatchSplits, TRUE)
    /\ UNCHANGED <<pc, op, cleanVars, relVars, adapterVars, lifeVars, context, retention>>

\* after the loop: the result of ingest_multiple_files
BatchReturn ==
    /\ pc = "batch" /\ batch.todo = <<>>
    /\ result' = batch_result(batch.paths, batch.results, batch.total_chunks)
    /\ pc' = "idle"
    /\ UNCHANGED <<index, op, arg, log, docs, err, countBefore, stored, batch>>
    /\ UNCHANGED <<cleanVars, relVars, adapterVars, lifeVars, context, retention>>

IngestNext == IngestStored \/ ClearAllData
SpecIngest == Init /\ [][IngestNext]_vars

BatchNext == BatchBegin \/ BatchIngest \/ BatchReturn \/ ClearAllData
SpecBatch == Init /\ [][BatchNext]_vars

(***************************************************************************)
(* Retention: RetentionManager.delete_old_files over the data directory.   *)
(* Ages are whole days; a file is older than n days when its age is more   *)
(* than n.                                                                 *)
(***************************************************************************)
\* the oldest a file gets
MaxAge == 32
\* config.RETENTION_DAYS
RETENTION_DAYS == 30
\* the days apply_retention_policy gives the temp directory
TEMP_DAYS == 1

\* the days delete_old_files is called with; None is the default
DaysArgs == {None, Some(0), Some(TEMP_DAYS), Some(RETENTION_DAYS)}

\* days = days or self.retention_days
EffectiveDays(days, retention_days) == OrDefault(days, retention_days)

\* delete_old_files: the files it unlinks
delete_old_files(dir, days, retention_days) ==
    IF EffectiveDays(days, retention_days) <= 0 THEN {}
    ELSE {f \in DOMAIN dir : dir[f] > EffectiveDays(days, retention_days)}

\* the directory without the files in gone
Unlinked(dir, gone) == [f \in DOMAIN dir \ gone |-> dir[f]]

RetentionInit ==
    /\ text = <<>> /\ out1 = <<>> /\ out2 = <<>> /\ cphase = "input"
    /\ hits = <<>> /\ relLast = <<>>
    /\ index = EmptyIndex /\ pc = "idle" /\ op = "none" /\ arg = <<>>
    /\ log = <<>> /\ docs = <<>> /\ err = "" /\ result = NoResult /\ countBefore = 0
    /\ holders = NoHolders /\ db = NoHolders /\ last = NoCall
    /\ stored = NoFiles /\ batch = NoBatch /\ context = <<>>
    /\ retention \in {[NoDeletion EXCEPT !.retention_days = d] : d \in {0, RETENTION_DAYS}}
    /\ life = NoLife /\ llm = NoClient

\* FileLoader.save_upload writes a file into the data directory
PutFile ==
    /\ \E file_path \in {LawTxt, DocPdf} : stored' = save_upload(stored, file_path)
    /\ op' = "save_upload"
    /\ UNCHANGED <<retention, index, pc, arg, log, docs, err, result, countBefore>>
    /\ UNCHANGED <<cleanVars, relVars, adapterVars, lifeVars, batch, context>>

\* a day passes
Tick ==
    /\ \E f \in DOMAIN stored : stored[f] < MaxAge
    /\ stored' = [f \in DOMAIN stored |-> Min(stored[f] + 1, MaxAge)]
    /\ op' = "tick"
    /\ UNCHANGED <<retention, index, pc, arg, log, docs, err, result, countBefore>>
    /\ UNCHANGED <<cleanVars, relVars, adapterVars, lifeVars, batch, context>>

\* RetentionManager.delete_old_files(self.data_dir, days)
DeleteOldFiles ==
    /\ \E days \in DaysArgs :
       \E gone \in {delete_old_files(stored, days, retention.retention_days)} :
           /\ stored' = Unlinked(stored, gone)
           /\ retention' = [retention EXCEPT !.days = days, !.deleted = gone,
                                             !.deleted_count = Cardinality(gone)]
    /\ op' = "delete_old_files"
    /\ UNCHANGED <<index, pc, arg, log, docs, err, result, countBefore>>
    /\ UNCHANGED <<cleanVars, relVars, adapterVars, lifeVars, batch, context>>

\* RetentionManager.apply_retention_policy, for the data directory:
\* delete_old_files(self.data_dir, days=self.retention_days)
ApplyRetentionPolicy ==
    /\ \E days \in {Some(retention.retention_days)} :
       \E gone \in {delete_old_files(stored, days, retention.retention_days)} :
           /\ stored' = Unlinked(stored, gone)
           /\ retention' = [retention EXCEPT !.days = days, !.deleted = gone,
                                             !.deleted_count = Cardinality(gone)]
    /\ op' = "apply_retention_policy"
    /\ UNCHANGED <<index, pc, arg, log, docs, err, result, countBefore>>
    /\ UNCHANGED <<cleanVars, relVars, adapterVars, lifeVars, batch, context>>

RetentionNext == PutFile \/ Tick \/ DeleteOldFiles \/ ApplyRetentionPolicy
SpecRetention == RetentionInit /\ [][RetentionNext]_vars

(***************************************************************************)
(* LegalRetriever.format_context.  The string it returns is a sequence of  *)
(* pieces: the blank line "\n\n", the rule line of 50 "─", and one         *)
(* labelled block per chunk.                                               *)
(***************************************************************************)
\* the most chunks handed to format_context
MaxDocs == 3
\* "─" * 50
RULE_WIDTH == 50

BlankLine == [kind |-> "blank"]
RuleLine == [kind |-> "rule", width |-> RULE_WIDTH]
\* f"[เอกสาร {i}: {source} | หน้า {page}]\n{doc.page_content}"
Block(i, doc) ==
    [kind |-> "block", i |-> i, source |-> doc.source, page |-> doc.page,
     page_content |-> doc.page_content]

\* sep.join(parts)
RECURSIVE Join(_, _)
Join(parts, sep) ==
    IF parts = <<>> THEN <<>>
    ELSE IF Len(parts) = 1 THEN <<parts[1]>>
    ELSE <<parts[1]>> \o sep \o Join(Tail(parts), sep)

\* LegalRetriever.format_context:
\* "\n\n" + "─" * 50 + "\n\n".join(context_parts)
format_context(documents) ==
    IF documents = <<>> THEN <<>>
    ELSE <<BlankLine, RuleLine>>
         \o Join([i \in 1..Len(documents) |-> Block(i, documents[i])], <<BlankLine>>)

\* the chunks retrieved: of law.txt and of doc.PDF
FormatChunks ==
    {load_and_split(LawTxt, <<<<"a">>, <<"a">>, <<"a">>>>)[i] : i \in 1..3}
        \cup {load_and_split(DocPdf, <<<<"a">>, <<"a">>>>)[i] : i \in 1..2}
DocLists == UNION {[1..n -> FormatChunks] : n \in 0..MaxDocs}

FormatInit ==
    /\ text = <<>> /\ out1 = <<>> /\ out2 = <<>> /\ cphase = "input"
    /\ hits = <<>> /\ relLast = <<>>
    /\ index = EmptyIndex /\ pc = "idle" /\ op = "none" /\ arg = <<>>
    /\ log = <<>> /\ docs = <<>> /\ err = "" /\ result = NoResult /\ countBefore = 0
    /\ holders = NoHolders /\ db = NoHolders /\ last = NoCall
    /\ stored = NoFiles /\ batch = NoBatch /\ context = <<>> /\ retention = NoDeletion
    /\ life = NoLife /\ llm = NoClient

\* LegalRetriever.format_context(docs)
FormatContext ==
    /\ \E documents \in DocLists :
        /\ docs' = documents
        /\ context' = format_context(documents)
    /\ op' = "format_context"
    /\ UNCHANGED <<index, pc, arg, log, err, result, countBefore>>
    /\ UNCHANGED <<cleanVars, relVars, adapterVars, lifeVars, stored, batch, retention>>

FormatNext == FormatContext
SpecFormat == FormatInit /\ [][FormatNext]_vars

(***************************************************************************)
(* Questions over a stocked index: chat and summarize on a collection that *)
(* earlier ingestions filled, one chunk of law.txt and one of doc.PDF each *)
(* ingested several times.                                                 *)
(***************************************************************************)
\* the most copies of one chunk in the stocked index
MaxStocked == 6

LawChunk == load_and_split(LawTxt, <<<<"a">>>>)[1]
DocChunk == load_and_split(DocPdf, <<<<"a">>>>)[1]
StockedIndexes ==
    {AddAll(AddAll(EmptyIndex, Copies(LawChunk, i)), Copies(DocChunk, j)) :
        i \in 0..MaxStocked, j \in 0..MaxStocked}

QueryInit ==
    /\ text = <<>> /\ out1 = <<>> /\ out2 = <<>> /\ cphase = "input"
    /\ hits = <<>> /\ relLast = <<>>
    /\ index \in StockedIndexes /\ pc = "idle" /\ op = "none" /\ arg = <<>>
    /\ log = <<>> /\ docs = <<>> /\ err = "" /\ result = NoResult /\ countBefore = 0
    /\ holders = NoHolders /\ db = NoHolders /\ last = NoCall
    /\ stored = NoFiles /\ batch = NoBatch /\ context = <<>> /\ retention = NoDeletion
    /\ life = NoLife /\ llm = NoClient

QueryNext == ChatBegin \/ LlmInvoke \/ Sleep \/ Summarize
SpecQuery == QueryInit /\ [][QueryNext]_vars

(***************************************************************************)
(* The embedding gateway step by step: EmbeddingManager.embed_documents    *)
(* and embed_query, each call of the model an event of log.                *)
(***************************************************************************)
EmbedErrors == {"timeout", "connection refused", "model not found"}
\* the texts handed to embed_documents and to embed_query
EmbedTexts == {<<"a">>, <<"b">>, <<"a", "b">>}
EmbedQueries == {<<"a">>, <<"b">>, <<"q">>}

IsEmbedCall(e) == e \in {"embed_ok", "embed_fail"}
EmbedAttempts(l) == Len(SelectSeq(l, IsEmbedCall))

\* a loop that pauses and tries again after the last attempt too
EmbedRetriesAfter_OneMore(attempt) == attempt < embed_max_retries

\* if attempt < max_retries - 1: time.sleep(2), else: raise
EmbedRetriesAfter(attempt) == attempt < embed_max_retries - 1

\* what embed_documents returns: one vector per text
Embeddings(texts) == [success |-> TRUE, vectors |-> Len(texts)]
\* what embed_query returns: the vector of the text
Embedding(query) == [success |-> TRUE, vectors |-> 1]
\* the exception that leaves the call
Raised(e) == [success |-> FALSE, raised |-> e]

EmbedInit ==
    /\ text = <<>> /\ out1 = <<>> /\ out2 = <<>> /\ cphase = "input"
    /\ hits = <<>> /\ relLast = <<>>
    /\ index = EmptyIndex /\ pc = "idle" /\ op = "none" /\ arg = <<>>
    /\ log = <<>> /\ docs = <<>> /\ err = "" /\ result = NoResult /\ countBefore = 0
    /\ holders = NoHolders /\ db = NoHolders /\ last = NoCall
    /\ stored = NoFiles /\ batch = NoBatch /\ context = <<>> /\ retention = NoDeletion
    /\ life = NoLife /\ llm = NoClient

\* EmbeddingManager.embed_documents(texts) or embed_query(text) is called
EmbedBegin ==
    /\ pc = "idle"
    /\ \/ \E texts \in EmbedTexts : op' = "embed_documents" /\ arg' = texts
       \/ \E query \in EmbedQueries : op' = "embed_query" /\ arg' = query
    /\ pc' = "embed" /\ log' = <<>> /\ err' = "" /\ result' = NoResult
    /\ UNCHANGED <<index, docs, countBefore, cleanVars, relVars, moreVars>>

\* one turn of the loop: model.embed_documents(texts) or model.embed_query(text)
EmbedCall ==
    /\ pc = "embed"
    /\ \E ok \in BOOLEAN, e \in EmbedErrors :
        LET attempt == EmbedAttempts(log)
        IN IF ok
           THEN /\ e = CHOOSE x \in EmbedErrors : TRUE
                /\ log' = Append(log, "embed_ok")
                /\ result' = IF op = "embed_documents" THEN Embeddings(arg) ELSE Embedding(arg)
                /\ pc' = "idle" /\ err' = err
           ELSE /\ log' = Append(log, "embed_fail")
                /\ err' = e
                /\ IF EmbedRetriesAfter(attempt)
                   THEN result' = NoResult /\ pc' = "embed_sleep"
                   ELSE result' = Raised(e) /\ pc' = "idle"
    /\ UNCHANGED <<index, op, arg, docs, countBefore, cleanVars, relVars, moreVars>>

\* time.sleep(2)
EmbedSleep ==
    /\ pc = "embed_sleep"
    /\ log' = Append(log, "sleep")
    /\ pc' = "embed"
    /\ UNCHANGED <<index, op, arg, docs, err, result, countBefore, cleanVars, relVars, moreVars>>

EmbedNext == EmbedBegin \/ EmbedCall \/ EmbedSleep
SpecEmbed == EmbedInit /\ [][EmbedNext]_vars

(***************************************************************************)
(* The lifecycle manager: startup, shutdown and the exit hooks, over the   *)
(* temp directory (life.temp) and the data directory (stored).             *)
(***************************************************************************)
MaxStartups == 2
MaxTempAge == 2
AUTO_DELETE_TEMP == TRUE
TempFiles == {<<"upload", ".tmp">>, <<"page", ".png">>}

\* apply_retention_policy: delete_old_files(self.temp_dir, days=1) and
\* delete_old_files(self.data_dir, days=self.retention_days)
PolicyOnTemp(temp, retention_days) ==
    Unlinked(temp, delete_old_files(temp, Some(TEMP_DAYS), retention_days))
PolicyOnData(data, retention_days) ==
    Unlinked(data, delete_old_files(data, Some(retention_days), retention_days))

\* clear_temp_files: every entry is unlinked but the locked ones
clear_temp_files(temp, locked) == Unlinked(temp, DOMAIN temp \ locked)

\* LifecycleManager.startup
startup(l, retention_days) ==
    IF l.started THEN [l EXCEPT !.status = "already_started"]
    ELSE [l EXCEPT !.temp = PolicyOnTemp(@, retention_days),
                   !.applied = @ + 1,
                   !.hooks = @ + 1,
                   !.started = TRUE,
                   !.startups = @ + 1,
                   !.status = "started"]

\* a shutdown that cleans up whether or not the application was started
shutdown_Unguarded(l, locked) ==
    [l EXCEPT !.temp = clear_temp_files(@, locked),
              !.cleared = @ + 1,
              !.started = FALSE,
              !.status = "shutdown"]

\* LifecycleManager.shutdown
shutdown(l, locked) ==
    IF ~l.started THEN [l EXCEPT !.status = "not_started"]
    ELSE [l EXCEPT !.temp = IF AUTO_DELETE_TEMP THEN clear_temp_files(@, locked) ELSE @,
                   !.cleared = IF AUTO_DELETE_TEMP THEN @ + 1 ELSE @,
                   !.started = FALSE,
                   !.status = "shutdown"]

LifeInit ==
    /\ text = <<>> /\ out1 = <<>> /\ out2 = <<>> /\ cphase = "input"
    /\ hits = <<>> /\ relLast = <<>>
    /\ index = EmptyIndex /\ pc = "idle" /\ op = "none" /\ arg = <<>>
    /\ log = <<>> /\ docs = <<>> /\ err = "" /\ result = NoResult /\ countBefore = 0
    /\ holders = NoHolders /\ db = NoHolders /\ last = NoCall
    /\ stored \in {NoFiles} \cup {[f \in {LawTxt} |-> a] : a \in {RETENTION_DAYS - 1, RETENTION_DAYS + 1}}
    /\ batch = NoBatch /\ context = <<>>
    /\ retention = [NoDeletion EXCEPT !.retention_days = RETENTION_DAYS]
    /\ life = NoLife /\ llm = NoClient

\* startup(): module function over the singleton
Startup ==
    /\ life.phase = "running"
    /\ life.started \/ life.startups < MaxStartups
    /\ life' = startup(life, retention.retention_days)
    /\ IF life.started
       THEN UNCHANGED <<stored, retention>>
       ELSE \E gone \in {delete_old_files(stored, Some(retention.retention_days),
                                          retention.retention_days)} :
               /\ stored' = PolicyOnData(stored, retention.retention_days)
               /\ retention' = [retention EXCEPT !.days = Some(retention.retention_days),
                                                 !.deleted = gone,
                                                 !.deleted_count = Cardinality(gone)]
    /\ op' = "startup"
    /\ UNCHANGED <<index, pc, arg, log, docs, err, result, countBefore>>
    /\ UNCHANGED <<cleanVars, relVars, adapterVars, llm, batch, context>>

\* shutdown(): called by main's finally
Shutdown ==
    /\ life.phase = "running"
    /\ \E locked \in SUBSET DOMAIN life.temp : life' = shutdown(life, locked)
    /\ op' = "shutdown"
    /\ UNCHANGED <<index, pc, arg, log, docs, err, result, countBefore>>
    /\ UNCHANGED <<cleanVars, relVars, adapterVars, llm, stored, retention, batch, context>>

\* a temp file is written while the application runs
WriteTemp ==
    /\ life.phase = "running"
    /\ \E f \in TempFiles : life' = [life EXCEPT !.temp = save_upload(@, f)]
    /\ op' = "write_temp"
    /\ UNCHANGED <<index, pc, arg, log, docs, err, result, countBefore>>
    /\ UNCHANGED <<cleanVars, relVars, adapterVars, llm, stored, retention, batch, context>>

\* a day passes
LifeTick ==
    /\ life.phase = "running"
    /\ \/ \E f \in DOMAIN life.temp : life.temp[f] < MaxTempAge
       \/ \E f \in DOMAIN stored : stored[f] < MaxAge
    /\ life' = [life EXCEPT !.temp = [f \in DOMAIN @ |-> Min(@[f] + 1, MaxTempAge)]]
    /\ stored' = [f \in DOMAIN stored |-> Min(stored[f] + 1, MaxAge)]
    /\ op' = "tick"
    /\ UNCHANGED <<index, pc, arg, log, docs, err, result, countBefore>>
    /\ UNCHANGED <<cleanVars, relVars, adapterVars, llm, retention, batch, context>>

\* the interpreter exits: every registered hook is due
Exit ==
    /\ life.phase = "running"
    /\ life' = [life EXCEPT !.phase = "exiting", !.pending = life.hooks]
    /\ op' = "exit"
    /\ UNCHANGED <<index, pc, arg, log, docs, err, result, countBefore>>
    /\ UNCHANGED <<cleanVars, relVars, adapterVars, llm, stored, retention, batch, context>>

\* atexit runs one registered self.shutdown
RunHook ==
    /\ life.phase = "exiting" /\ life.pending > 0
    /\ \E locked \in SUBSET DOMAIN life.temp :
           life' = [shutdown(life, locked) EXCEPT !.pending = @ - 1]
    /\ op' = "atexit"
    /\ UNCHANGED <<index, pc, arg, log, docs, err, result, countBefore>>
    /\ UNCHANGED <<cleanVars, relVars, adapterVars, llm, stored, retention, batch, context>>

LifeNext == Startup \/ Shutdown \/ WriteTemp \/ LifeTick \/ Exit \/ RunHook
SpecLife == LifeInit /\ [][LifeNext]_vars

(***************************************************************************)
(* The model client and the engine's handle on it: OllamaClient and the    *)
(* handle QAEngine.__init__ stores.  Temperatures are in tenths.           *)
(***************************************************************************)
LLM_MODEL_NAME == "llama3.2"
LLM_TEMPERATURE == 3
AVAILABLE_MODELS == {"llama3.2", "gemma2:2b", "qwen2.5:3b"}
\* the temperatures a caller passes, some outside 0.0 .. 1.0
Temperatures == {-5, 0, 3, 7, 15}

\* ChatOllama(model=self.model_name, temperature=self.temperature)
ChatOllama(model, temperature) == [model |-> model, temperature |-> temperature]

\* max(0.0, min(1.0, temperature))
Clamp(temperature) ==
    LET least == Min(10, temperature) IN IF least < 0 THEN 0 ELSE least

\* OllamaClient.get_llm: the client after the call; the handle is in client_llm
get_llm(c) ==
    IF c.client_llm = None
    THEN [c EXCEPT !.client_llm = Some(ChatOllama(c.model_name, c.temperature))]
    ELSE c

\* OllamaClient.set_model
set_model(c, model_name) == [c EXCEPT !.model_name = model_name, !.client_llm = None]

\* OllamaClient.set_temperature
set_temperature(c, temperature) ==
    [c EXCEPT !.temperature = Clamp(temperature), !.client_llm = None]

\* OllamaClient.__init__, then QAEngine.__init__: self.llm = self.llm_client.get_llm()
EngineClient ==
    LET made == get_llm([NoClient EXCEPT !.model_name = OrDefault(None, LLM_MODEL_NAME),
                                         !.temperature = LLM_TEMPERATURE])
    IN [made EXCEPT !.engine_llm = made.client_llm]

ModelInit ==
    /\ text = <<>> /\ out1 = <<>> /\ out2 = <<>> /\ cphase = "input"
    /\ hits = <<>> /\ relLast = <<>>
    /\ index = EmptyIndex /\ pc = "idle" /\ op = "none" /\ arg = <<>>
    /\ log = <<>> /\ docs = <<>> /\ err = "" /\ result = NoResult /\ countBefore = 0
    /\ holders = NoHolders /\ db = NoHolders /\ last = NoCall
    /\ stored = NoFiles /\ batch = NoBatch /\ context = <<>> /\ retention = NoDeletion
    /\ life = NoLife /\ llm = EngineClient

\* settings panel change_model: ollama_client.set_model(model_name)
SetModel ==
    /\ \E model_name \in AVAILABLE_MODELS : llm' = set_model(llm, model_name)
    /\ op' = "set_model"
    /\ UNCHANGED <<index, pc, arg, log, docs, err, result, countBefore>>
    /\ UNCHANGED <<cleanVars, relVars, adapterVars, storeVars, life>>

\* ollama_client.set_temperature(temperature)
SetTemperature ==
    /\ \E temperature \in Temperatures : llm' = set_temperature(llm, temperature)
    /\ op' = "set_temperature"
    /\ UNCHANGED <<index, pc, arg, log, docs, err, result, countBefore>>
    /\ UNCHANGED <<cleanVars, relVars, adapterVars, storeVars, life>>

\* ollama_client.get_llm()
GetLlm ==
    /\ llm' = get_llm(llm)
    /\ op' = "get_llm"
    /\ UNCHANGED <<index, pc, arg, log, docs, err, result, countBefore>>
    /\ UNCHANGED <<cleanVars, relVars, adapterVars, storeVars, life>>

\* engine.get_status(): "current_model": self.model_name
GetStatus ==
    /\ llm' = [llm EXCEPT !.current_model = llm.model_name]
    /\ op' = "get_status"
    /\ UNCHANGED <<index, pc, arg, log, docs, err, result, countBefore>>
    /\ UNCHANGED <<cleanVars, relVars, adapterVars, storeVars, life>>

\* chat and summarize: chain = prompt | self.llm | StrOutputParser()
ModelInvoke ==
    /\ \E o \in {"chat", "summarize"} : op' = o
    /\ llm' = [llm EXCEPT !.invoked = llm.engine_llm]
    /\ UNCHANGED <<index, pc, arg, log, docs, err, result, countBefore>>
    /\ UNCHANGED <<cleanVars, relVars, adapterVars, storeVars, life>>

ModelNext == SetModel \/ SetTemperature \/ GetLlm \/ GetStatus \/ ModelInvoke
SpecModel == ModelInit /\ [][ModelNext]_vars

(***************************************************************************)
(* The retention manager's index removal under the adapter: the engine's   *)
(* VectorDBManager keeps the handle it opened while RetentionManager       *)
(* removes and recreates the directory.  index is the directory as a new   *)
(* handle would read it; the embedding and database backends are healthy,  *)
(* so a call fails only on a handle whose directory was removed.  What a   *)
(* handle on a removed directory does is the backend's: each call either   *)
(* works on the store it opened, which no path names any more, or raises.  *)
(***************************************************************************)
StaleOutcomes == {"old_store", "raises"}
\* the outcomes of a call through the handle of object i
OutcomesOf(i) == IF db[i].state = "stale" THEN StaleOutcomes ELSE {"current"}

\* every handle left on the removed directory
AllStale == [j \in DOMAIN db |-> Stale(ViewOf(j))]

PurgeInit ==
    /\ text = <<>> /\ out1 = <<>> /\ out2 = <<>> /\ cphase = "input"
    /\ hits = <<>> /\ relLast = <<>>
    /\ index = EmptyIndex /\ pc = "idle" /\ op = "none" /\ arg = <<>>
    /\ log = <<>> /\ docs = <<>> /\ err = "" /\ result = NoResult /\ countBefore = 0
    /\ holders = [c \in {"engine", "retriever"} |-> VectorDBManager_new({})]
    /\ db = [i \in {VectorDBManager_new({})} |-> Opened]
    /\ last = NoCall
    /\ stored \in {NoFiles, save_upload(NoFiles, LawTxt)}
    /\ batch = NoBatch /\ context = <<>> /\ retention = NoDeletion
    /\ life = NoLife /\ llm = NoClient

\* VectorDBManager.add_documents through the engine's object
PurgeAdd ==
    /\ \E documents \in DocumentLists \ {<<>>}, i \in {holders["engine"]} :
       \E outcome \in OutcomesOf(i) :
           /\ CountOf(ViewOf(i)) + Len(documents) <= MaxIndexed
           /\ CountOf(index) + Len(documents) <= MaxIndexed
           /\ index' = IF outcome = "current"
                       THEN IndexAfterAdd(index, documents, FALSE) ELSE index
           /\ db' = IF outcome = "old_store"
                    THEN [db EXCEPT ![i] = Stale(IndexAfterAdd(db[i].sees, documents, FALSE))]
                    ELSE db
           /\ last' = [NoCall EXCEPT !.op = "add_documents",
                                     !.failed = (outcome = "raises"),
                                     !.dbFails = (outcome = "raises"),
                                     !.docs = documents,
                                     !.n = add_documents(documents, outcome = "raises")]
    /\ UNCHANGED <<holders, pc, op, arg, log, docs, err, result, countBefore>>
    /\ UNCHANGED <<cleanVars, relVars, storeVars, lifeVars>>

\* VectorDBManager.get_document_count through the engine's object
PurgeCount ==
    /\ \E i \in {holders["engine"]} : \E outcome \in OutcomesOf(i) :
           last' = [NoCall EXCEPT !.op = "get_document_count",
                                  !.failed = (outcome = "raises"),
                                  !.dbFails = (outcome = "raises"),
                                  !.n = get_document_count(ViewOf(i), outcome = "raises")]
    /\ UNCHANGED <<holders, db>>
    /\ UNCHANGED <<index, pc, op, arg, log, docs, err, result, countBefore>>
    /\ UNCHANGED <<cleanVars, relVars, storeVars, lifeVars>>

\* VectorDBManager.get_all_sources through the engine's object
PurgeSources ==
    /\ \E i \in {holders["engine"]} : \E outcome \in OutcomesOf(i) :
           last' = [NoCall EXCEPT !.op = "get_all_sources",
                                  !.failed = (outcome = "raises"),
                                  !.dbFails = (outcome = "raises"),
                                  !.sources = get_all_sources(ViewOf(i), outcome = "raises")]
    /\ UNCHANGED <<holders, db>>
    /\ UNCHANGED <<index, pc, op, arg, log, docs, err, result, countBefore>>
    /\ UNCHANGED <<cleanVars, relVars, storeVars, lifeVars>>

\* VectorDBManager.similarity_search through the engine's object
PurgeSearch ==
    /\ \E near \in {None, Some(LawTxt)}, i \in {holders["engine"]} :
       \E outcome \in OutcomesOf(i) :
           last' = [NoCall EXCEPT !.op = "similarity_search",
                                  !.failed = (outcome = "raises"),
                                  !.dbFails = (outcome = "raises"),
                                  !.docs = similarity_search(ViewOf(i), near, None,
                                                             outcome = "raises")]
    /\ UNCHANGED <<holders, db>>
    /\ UNCHANGED <<index, pc, op, arg, log, docs, err, result, countBefore>>
    /\ UNCHANGED <<cleanVars, relVars, storeVars, lifeVars>>

\* engine.clear_all_data: VectorDBManager.clear_database removes the
\* directory, makes it again and opens the handle again
EngineClear ==
    /\ index' = IndexAfterClear(index, FALSE)
    /\ db' = [j \in DOMAIN db |->
                 IF j = holders["engine"] THEN Reopened ELSE Stale(ViewOf(j))]
    /\ last' = [NoCall EXCEPT !.op = "clear_database", !.ok = clear_database(FALSE)]
    /\ UNCHANGED <<holders, pc, op, arg, log, docs, err, result, countBefore>>
    /\ UNCHANGED <<cleanVars, relVars, storeVars, lifeVars>>

\* RetentionManager.clear_vector_database: rmtree and mkdir, no handle is
\* opened again
ClearVectorDatabase ==
    /\ index' = EmptyIndex
    /\ db' = AllStale
    /\ last' = [NoCall EXCEPT !.op = "clear_vector_database", !.ok = TRUE]
    /\ UNCHANGED <<holders, pc, op, arg, log, docs, err, result, countBefore>>
    /\ UNCHANGED <<cleanVars, relVars, storeVars, lifeVars>>

\* RetentionManager.clear_all_data: temp files, uploads, then the index
RetentionClearAll ==
    /\ index' = EmptyIndex
    /\ db' = AllStale
    /\ stored' = NoFiles
    /\ last' = [NoCall EXCEPT !.op = "retention_clear_all", !.ok = TRUE]
    /\ UNCHANGED <<holders, pc, op, arg, log, docs, err, result, countBefore>>
    /\ UNCHANGED <<cleanVars, relVars, lifeVars, batch, context, retention>>

\* settings panel clear_all: engine.clear_all_data() then
\* retention_manager.clear_all_data()
SettingsClearAll ==
    /\ index' = EmptyIndex
    /\ db' = [j \in DOMAIN db |->
                 IF j = holders["engine"] THEN Stale(EmptyIndex) ELSE Stale(ViewOf(j))]
    /\ stored' = NoFiles
    /\ last' = [NoCall EXCEPT !.op = "settings_clear_all", !.ok = TRUE]
    /\ UNCHANGED <<holders, pc, op, arg, log, docs, err, result, countBefore>>
    /\ UNCHANGED <<cleanVars, relVars, lifeVars, batch, context, retention>>

PurgeNext ==
    \/ PurgeAdd \/ PurgeCount \/ PurgeSources \/ PurgeSearch
    \/ EngineClear \/ ClearVectorDatabase \/ RetentionClearAll \/ SettingsClearAll
SpecPurge == PurgeInit /\ [][PurgeNext]_vars

(***************************************************************************)
(* C9 and the retriever claims.                                            *)
(***************************************************************************)
\* C9: the normalizer is idempotent: clean(clean(x)) = clean(x)
C9_CleanIdempotent == cphase = "twice" => out2 = out1

DocsOf(rs) == {rs[i].doc : i \in 1..Len(rs)}
Called == relLast # <<>>
Call == relLast[1]

\* C5: for every threshold t in [0,1] passed to retrieve_relevant, the
\* endpoints included, a retrieved chunk is kept iff its distance < 2 - t
C5_KeptIffBelowTwoMinusT ==
    (Called /\ Call.threshold # None) =>
        \A i \in 1..Len(Call.seen) :
            Call.seen[i].doc \in DocsOf(Call.kept)
                <=> Call.seen[i].score < 20 - Call.threshold[1]

\* C6: for a fixed query, k and index contents and thresholds t1 <= t2 in
\* [0,1] (t1 = 0 included), what retrieve_relevant returns with t2 is a
\* subset of what it returns with t1
C6_MonotonicInThreshold ==
    [][(/\ Called /\ Called'
        /\ Call.threshold # None /\ Call'.threshold # None
        /\ Call.k = Call'.k /\ Call.seen = Call'.seen
        /\ Call.threshold[1] <= Call'.threshold[1])
            => DocsOf(Call'.kept) \subseteq DocsOf(Call.kept)]_vars

(***************************************************************************)
(* The engine claims.  log holds the backend calls of the call in op, in   *)
(* order; docs what its retrieval returned (chat, summarize) or what it    *)
(* handed to add_documents (ingest_file).                                  *)
(***************************************************************************)
Invoked(l) == Attempts(l) > 0
Succeeded(l) == \E i \in 1..Len(l) : l[i] = "llm_ok"
Retrieved(l) == Len(l) >= 2 /\ l[2] \in {"search", "search_fail"}
\* the text a result carries to the user
TextOf(r) ==
    IF "answer" \in DOMAIN r THEN r.answer
    ELSE IF "summary" \in DOMAIN r THEN r.summary
    ELSE Answer("", <<>>)

\* C1: in a chat on a non-empty index whose retrieval returned a chunk, the
\* model is invoked until the first success or until 3 attempts have failed,
\* one pause lies between consecutive attempts and nothing follows a
\* success; when every attempt fails there are exactly 3 attempts and 2
\* pauses and chat returns success=false with the failure's message
C1_ChatRetries ==
    (op = "chat" /\ Retrieved(log) /\ docs # <<>>) =>
        /\ Attempts(log) <= 3
        /\ \A i \in 1..Len(log) :
              /\ log[i] = "llm_ok" => i = Len(log)
              /\ (log[i] = "llm_fail" /\ i < Len(log)) => log[i + 1] = "sleep"
              /\ log[i] = "sleep" => log[i - 1] = "llm_fail"
              /\ (log[i] = "sleep" /\ i < Len(log)) => IsLlmCall(log[i + 1])
        /\ pc # "idle" => (Attempts(log) < 3 /\ ~Succeeded(log))
        /\ (pc = "idle" /\ Succeeded(log)) => result.success
        /\ (pc = "idle" /\ ~Succeeded(log)) =>
              /\ Attempts(log) = 3
              /\ Pauses(log) = 2
              /\ result.success = FALSE
              /\ err \in LlmErrors
              /\ result.error = err
C1_ThreeFailedAttempts ==
    /\ op = "chat" /\ pc = "idle" /\ docs # <<>>
    /\ log = <<"count", "search", "llm_fail", "sleep", "llm_fail", "sleep", "llm_fail">>
    /\ result.success = FALSE

\* C2: chat on an empty index returns success=false, has_context=false, no
\* sources and the fixed no-documents message whatever the question, and
\* neither retrieves nor invokes the model
C2_EmptyIndexNoContext ==
    (op = "chat" /\ CountOf(index) = 0) =>
        /\ pc = "idle"
        /\ result.success = FALSE
        /\ result.has_context = FALSE
        /\ result.sources = <<>>
        /\ result.answer = Answer("NO_CONTEXT_PROMPT", <<>>)
        /\ ~Retrieved(log)
        /\ ~Invoked(log)
C2_ChatOnEmptyIndex ==
    /\ op = "chat" /\ arg = <<"doc", "?">> /\ countBefore = 0 /\ log = <<"count">>
    /\ result.answer = Answer("NO_CONTEXT_PROMPT", <<>>)

\* C3: in chat and in summarize the model is invoked only after a retrieval
\* of the same call returned a chunk; with an empty index or an empty
\* retrieval the model is not invoked and no generated text is returned
C3_ModelOnlyAfterRetrieval ==
    (op \in {"chat", "summarize"}) =>
        /\ Invoked(log) =>
              /\ docs # <<>>
              /\ \E i \in 1..Len(log) :
                    /\ log[i] = "search"
                    /\ \A j \in 1..Len(log) : IsLlmCall(log[j]) => i < j
        /\ (CountOf(index) = 0 \/ docs = <<>>) =>
              /\ ~Invoked(log)
              /\ TextOf(result).arg # Generated
C3_SummarizeAfterRetrieval ==
    op = "summarize" /\ log = <<"search", "llm_ok">> /\ docs # <<>>
        /\ TextOf(result).arg = Generated

\* C4: with a non-empty index, a retrieval that yields no chunk (the backend
\* failing included) makes chat return the LOW_RELEVANCE message templated
\* with the question, success=false, has_context=false and no sources, and
\* no error result
C4_LowRelevance ==
    (op = "chat" /\ Retrieved(log) /\ docs = <<>>) =>
        /\ pc = "idle"
        /\ result.success = FALSE
        /\ result.has_context = FALSE
        /\ result.sources = <<>>
        /\ result.answer = Answer("LOW_RELEVANCE_PROMPT", arg)
        /\ "error" \notin DOMAIN result
C4_RetrievalFailed ==
    /\ op = "chat" /\ CountOf(index) > 0 /\ log = <<"count", "search_fail">>
    /\ result.answer = Answer("LOW_RELEVANCE_PROMPT", arg)

\* C7: delete_by_source(s), the backend not raising, removes exactly the
\* chunks whose source is s, case-sensitively: s is no source afterwards,
\* the count falls by the number of chunks of s, the chunks of the other
\* sources stay; and the call returns true iff a chunk was deleted
C7_DeleteBySourceExact ==
    [][(pc = "idle" /\ op' = "delete_source") =>
        /\ result'.success <=> CountOf(index') < CountOf(index)
        /\ log' = <<"delete_fail">> => index' = index
        /\ log' = <<"delete">> =>
              /\ arg' \notin get_all_sources(index', FALSE)
              /\ CountOf(index') = CountOf(index) - CountOfSource(index, arg')
              /\ \A c \in DOMAIN index :
                    c.source # arg' => (c \in DOMAIN index' /\ index'[c] = index[c])
              /\ \A c \in DOMAIN index' : c \in DOMAIN index /\ c.source # arg'
              /\ result'.success <=> CountOfSource(index, arg') > 0]_vars
C7_DeletedOneOfTwoSources ==
    /\ op = "delete_source" /\ log = <<"delete">> /\ result.success
    /\ arg = DocPdf /\ get_all_sources(index, FALSE) = {LawTxt}
    /\ countBefore = 3 /\ CountOf(index) = 1

\* C8: after a successful clear the count is 0 and there are no sources, a
\* chat that follows returns the no-documents outcome, and an add that
\* follows succeeds and shows in the count and in the sources
C8_ClearLeavesUsable ==
    /\ []((op = "clear_all_data" /\ result.success) =>
            (get_document_count(index, FALSE) = 0 /\ get_all_sources(index, FALSE) = {}))
    /\ [][(op = "clear_all_data" /\ result.success /\ op' = "chat") =>
            (pc' = "idle" /\ result' = NoContextResult)]_vars
    /\ [][(op = "clear_all_data" /\ result.success /\ op' = "ingest_file"
              /\ log' = <<"add", "count">>) =>
            /\ result'.success
            /\ result'.num_chunks = Len(docs')
            /\ result'.total_documents = Len(docs')
            /\ get_document_count(index', FALSE) = Len(docs')
            /\ get_all_sources(index', FALSE) = {arg'}]_vars
C8_Cleared ==
    /\ op = "clear_all_data" /\ log = <<"clear">> /\ result.success
    /\ countBefore > 1 /\ CountOf(index) = 0

\* C10: no chunk of the index, and no chunk handed to add_documents, has
\* content that is empty or only whitespace
C10_NoEmptyChunkIndexed ==
    /\ \A c \in DOMAIN index : Strip(c.page_content) # <<>>
    /\ op = "ingest_file" =>
          \A i \in 1..Len(docs) : Strip(docs[i].page_content) # <<>>
C10_EmptyChunkDropped ==
    /\ op = "ingest_file" /\ result.success /\ result.num_chunks = 1
    /\ Len(docs) = 1 /\ docs[1].chunk_index = 1 /\ docs[1] \in DOMAIN index

\* C11: when the backend fails while a file's chunks are added, ingest_file
\* reports the file failed (success=false) and the index holds what it held
C11_AddFailureReported ==
    (op = "ingest_file" /\ log # <<>> /\ log[1] = "add_fail") =>
        /\ result.success = FALSE
        /\ CountOf(index) = countBefore

(***************************************************************************)
(* The adapter claims.                                                     *)
(***************************************************************************)
UsesEmbedding(l) ==
    l.op \in {"add_documents", "similarity_search", "similarity_search_with_score"}
        /\ l.calls > 0

\* C12: every embedding call of an add and of a query goes through the
\* gateway's retry: a backend that fails once and then succeeds does not
\* make the add or the query fail, and one that always fails is tried
\* exactly 3 times
C12_EmbeddingRetried ==
    UsesEmbedding(last) =>
        /\ last.calls = embed_documents(last.outage).calls
        /\ (last.outage = 1 /\ ~last.dbFails) => ~last.failed
        /\ last.outage >= 3 => last.calls = 3

Degraded(l) ==
    CASE l.op = "add_documents" -> l.n = 0
      [] l.op \in {"similarity_search", "similarity_search_with_score"} -> l.docs = <<>>
      [] l.op = "get_document_count" -> l.n = 0
      [] l.op = "get_all_sources" -> l.sources = {}
      [] l.op \in {"delete_by_source", "clear_database"} -> l.ok = FALSE
      [] OTHER -> FALSE

\* C17: when the backend fails the adapter returns a value and leaves the
\* index as it was: add 0, the queries an empty list, count 0, the sources
\* an empty collection, delete_by_source false
C17_DegradesToValues ==
    [][last'.failed => (index' = index /\ Degraded(last'))]_vars
C17_AddFailed ==
    last.op = "add_documents" /\ last.failed /\ last.n = 0 /\ CountOf(index) > 0

(***************************************************************************)
(* The ingestion claims.                                                   *)
(***************************************************************************)
RECURSIVE SumChunks(_)
SumChunks(rs) ==
    IF rs = <<>> THEN 0
    ELSE (IF Head(rs).success THEN Head(rs).num_chunks ELSE 0) + SumChunks(Tail(rs))
BatchReturned == pc = "idle" /\ op = "ingest_multiple_files"
Unsupported(file_path) == Lower(file_path[2]) \notin SUPPORTED_EXTENSIONS

\* C13: ingest_multiple_files of N files gives N results in the order of
\* the paths, whatever failed before; it reports success exactly when some
\* file succeeded, and total_chunks is the sum of num_chunks over the
\* successful files
C13_BatchIndependent ==
    /\ (pc = "batch") => Len(batch.results) + Len(batch.todo) = Len(batch.paths)
    /\ BatchReturned =>
        /\ Len(result.results) = Len(batch.paths)
        /\ \A i \in 1..Len(result.results) :
            /\ result.results[i].success => result.results[i].file_name = batch.paths[i]
            /\ Unsupported(batch.paths[i]) =>
                   (~result.results[i].success
                       /\ result.results[i].error = "unsupported file type")
        /\ result.success <=> (\E i \in 1..Len(result.results) : result.results[i].success)
        /\ result.total_chunks = SumChunks(result.results)
C13_SuccessAfterFailure ==
    /\ BatchReturned /\ Len(result.results) = 2
    /\ ~result.results[1].success
    /\ result.results[2].success /\ result.results[2].num_chunks = 1
    /\ result.success /\ result.total_chunks = 1

\* C14: ingest_file of a file whose lower-cased extension is not supported
\* fails at the first step: nothing is copied to the data directory, no
\* other step runs, and the index is as it was
C14_UnsupportedRejectedFirst ==
    [][(op' = "ingest_file" /\ Unsupported(arg')) =>
           /\ ~result'.success
           /\ log' = <<"is_supported">>
           /\ stored' = stored
           /\ index' = index]_vars
C14_MarkdownRejected ==
    /\ op = "ingest_file" /\ arg = NotesMd /\ ~result.success
    /\ NotesMd \notin DOMAIN stored /\ LawTxt \in DOMAIN stored
    /\ CountOf(index) > 0

\* law.txt, cut by the splitter into 3 pieces, ingested into an empty index
\* while the backend works
LawInThree ==
    /\ op = "ingest_file" /\ arg = LawTxt /\ result.success
    /\ batch.pieces = 3 /\ countBefore = 0
    /\ "add_fail" \notin {log[i] : i \in 1..Len(log)}
    /\ "count_fail" \notin {log[i] : i \in 1..Len(log)}
ThreeChunksIndexed ==
    /\ CountOf(index) = 3
    /\ {c.chunk_index : c \in DOMAIN index} = {0, 1, 2}
    /\ \A c \in DOMAIN index : c.source = LawTxt /\ c.page = 1
    /\ result.num_chunks = 3 /\ result.total_documents = 3
ReportsWhatWasAdded ==
    (op = "ingest_file" /\ result.success) =>
        /\ result.num_chunks = CountOf(index) - countBefore
        /\ "count_fail" \notin {log[i] : i \in 1..Len(log)} =>
               result.total_documents = CountOf(index)

\* C15 as stated: law.txt of 3 pieces into an empty index gives 3 chunks
\* numbered 0, 1, 2 of source law.txt and page 1, and count() = 3
C15_AsStated == (LawInThree => ThreeChunksIndexed) /\ ReportsWhatWasAdded
\* C15: law.txt of 3 pieces, each of which keeps content when cleaned,
\* into an empty index gives 3 chunks numbered 0, 1, 2 of source law.txt
\* and page 1, and count() = 3; every successful ingest_file reports the
\* number of chunks it added and, read without failure, the count after
C15_ThreeKeptPieces ==
    ((LawInThree /\ Len(docs) = 3) => ThreeChunksIndexed) /\ ReportsWhatWasAdded
C15_LawTxtIngested == LawInThree /\ Len(docs) = 3 /\ CountOf(index) = 3

(***************************************************************************)
(* The engine's results.                                                   *)
(***************************************************************************)
ModelFailed(l) == Invoked(l) /\ ~Succeeded(l)

\* C18: whatever fails, ingest_file, chat, summarize, clear_all_data and
\* delete_source return a result with a success flag; chat returns
\* success=true only after a model call succeeded, and when the model failed
\* to the end the result is a failure carrying the model's error message in
\* the place of an answer
C18_StructuredResults ==
    /\ (pc = "idle" /\ op # "none") =>
           ("success" \in DOMAIN result /\ result.success \in BOOLEAN)
    /\ (pc = "idle" /\ op = "chat" /\ result.success) => Succeeded(log)
    /\ (pc = "idle" /\ op \in {"chat", "summarize"} /\ ModelFailed(log)) =>
           /\ ~result.success
           /\ "error" \in DOMAIN result /\ result.error = err /\ err \in LlmErrors
           /\ TextOf(result) = Answer("error", <<err>>)
    /\ (pc # "idle") => (op = "chat" /\ Attempts(log) < max_retries)
C18_ChatFailedWithMessage ==
    /\ pc = "idle" /\ op = "chat" /\ Attempts(log) = max_retries /\ ~Succeeded(log)
    /\ result.error = "timeout" /\ CountOf(index) > 0

(***************************************************************************)
(* The retention claims.                                                   *)
(***************************************************************************)
\* C19: a deletion by age whose window is 0 days, configured or passed for
\* the one call, deletes no file
C19_ZeroDaysDeletesNothing ==
    [][(op' \in {"delete_old_files", "apply_retention_policy"}
          /\ (retention'.days = Some(0)
                \/ (retention'.days = None /\ retention'.retention_days = 0)))
       => stored' = stored]_vars

(***************************************************************************)
(* The context claims.                                                     *)
(***************************************************************************)
IsBlock(piece) == piece.kind = "block"
IsRule(piece) == piece.kind = "rule"
\* where the i-th block stands in ctx
RECURSIVE BlockAt(_, _, _)
BlockAt(ctx, i, from) ==
    IF IsBlock(ctx[from])
    THEN (IF i = 1 THEN from ELSE BlockAt(ctx, i - 1, from + 1))
    ELSE BlockAt(ctx, i, from + 1)

\* C20: format_context of n chunks gives n blocks numbered 1..n in the
\* order of the chunks, with the rule line between every two consecutive
\* blocks and nowhere else (n - 1 rule lines for n >= 2); of no chunk it
\* gives the empty string
C20_RuleBetweenBlocks ==
    (op = "format_context") =>
        LET n == Len(docs)
            blocks == SelectSeq(context, IsBlock)
        IN /\ n = 0 => context = <<>>
           /\ Len(blocks) = n
           /\ \A i \in 1..n : blocks[i] = Block(i, docs[i])
           /\ n >= 2 => Len(SelectSeq(context, IsRule)) = n - 1
           /\ \A i \in 1..(n - 1) :
                 \E j \in (BlockAt(context, i, 1) + 1)..(BlockAt(context, i + 1, 1) - 1) :
                     IsRule(context[j])

(***************************************************************************)
(* The claims about questions.                                             *)
(***************************************************************************)
\* C21: a chat result with success=true has has_context=true and one
\* {source, page} entry per retrieved chunk, in the order retrieved and
\* with duplicates, at most the default k of them; with success=false the
\* sources are empty
C21_OneCitationPerChunk ==
    (op = "chat" /\ pc = "idle") =>
        /\ result.success =>
            /\ result.has_context = TRUE
            /\ Len(result.sources) = Len(docs)
            /\ Len(docs) = Min(NUM_RELEVANT_DOCS, CountOf(index))
            /\ \A i \in 1..Len(docs) :
                  result.sources[i] = [source |-> docs[i].source, page |-> docs[i].page]
        /\ ~result.success => result.sources = <<>>
C21_DuplicateCitations ==
    /\ op = "chat" /\ pc = "idle" /\ result.success
    /\ CountOf(index) > NUM_RELEVANT_DOCS
    /\ Len(result.sources) = NUM_RELEVANT_DOCS
    /\ result.sources[1] = result.sources[2]
    /\ result.sources[1] # result.sources[NUM_RELEVANT_DOCS]

\* C22: summarize retrieves once with k = 10, invokes the model at most
\* once and never pauses; a model failure ends it with success=false and
\* the error message; on success the sources are the set of the sources of
\* the retrieved chunks
C22_SummarizeOnce ==
    (op = "summarize") =>
        /\ pc = "idle"
        /\ Len(log) >= 1 /\ log[1] \in {"search", "search_fail"}
        /\ \A i \in 2..Len(log) : IsLlmCall(log[i])
        /\ Attempts(log) <= 1
        /\ log[1] = "search" => Len(docs) = Min(SUMMARY_K, CountOf(index))
        /\ ModelFailed(log) =>
               (~result.success /\ result.error = err /\ err \in LlmErrors
                   /\ result.summary = Answer("error", <<err>>))
        /\ result.success =>
               (Succeeded(log)
                   /\ result.sources = {docs[i].source : i \in 1..Len(docs)})
C22_TenOfMore ==
    /\ op = "summarize" /\ result.success
    /\ CountOf(index) > SUMMARY_K /\ Len(docs) = SUMMARY_K
    /\ result.sources = {LawTxt, DocPdf}

\* C26: summarize(source_name = S) hands the model chunks of S only and
\* returns no other source
C26_OnlyNamedSource ==
    (op = "summarize" /\ arg # <<>>) =>
        /\ \A i \in 1..Len(docs) : docs[i].source = arg
        /\ result.success => result.sources \subseteq {arg}

(***************************************************************************)
(* The claims about page artifacts.                                        *)
(***************************************************************************)
\* the lines of s, as str.split('\n') gives them
RECURSIVE LinesFrom(_, _, _)
LinesFrom(s, p, line) ==
    IF p > Len(s) THEN {line}
    ELSE IF s[p] = "\n" THEN {line} \cup LinesFrom(s, p + 1, <<>>)
    ELSE LinesFrom(s, p + 1, Append(line, s[p]))
Lines(s) == LinesFrom(s, 1, <<>>)
OnlyDigits(line) == line # <<>> /\ \A i \in 1..Len(line) : line[i] \in Digit

\* C24: clean removes every line that consists only of digits, however
\* many: no such line of the input is a line of the output
C24_DigitLinesRemoved ==
    (cphase # "input") =>
        \A line \in Lines(text) : OnlyDigits(line) => line \notin Lines(out1)

(***************************************************************************)
(* More ingestion claims.                                                  *)
(***************************************************************************)
\* C23: the chunks of one ingestion handed to the index have chunk_index
\* values strictly increasing in the order handed over, so pairwise
\* distinct, also when pieces that cleaning emptied were dropped between
C23_ChunkIndexIncreasing ==
    (op = "ingest_file") =>
        \A i \in 1..Len(docs) : \A j \in 1..Len(docs) :
            i < j => docs[i].chunk_index < docs[j].chunk_index
C23_GapAfterDrop ==
    /\ op = "ingest_file" /\ result.success /\ batch.pieces = 3
    /\ Len(docs) = 2 /\ docs[1].chunk_index = 0 /\ docs[2].chunk_index = 2
    /\ result.num_chunks = 2

C25_EmbedRetries ==
    (op \in {"embed_documents", "embed_query"}) =>
        /\ EmbedAttempts(log) <= 3
        /\ \A i \in 1..Len(log) :
              /\ log[i] = "embed_ok" => i = Len(log)
              /\ (log[i] = "embed_fail" /\ i < Len(log)) => log[i + 1] = "sleep"
              /\ log[i] = "sleep" => (i > 1 /\ log[i - 1] = "embed_fail")
              /\ (log[i] = "sleep" /\ i < Len(log)) => IsEmbedCall(log[i + 1])
        /\ (pc = "idle") =>
              \/ /\ log[Len(log)] = "embed_ok"
                 /\ result = [success |-> TRUE,
                              vectors |-> IF op = "embed_documents" THEN Len(arg) ELSE 1]
              \/ /\ EmbedAttempts(log) = 3
                 /\ \A i \in 1..Len(log) : log[i] # "embed_ok"
                 /\ result = [success |-> FALSE, raised |-> err]
                 /\ err \in EmbedErrors
        /\ (pc # "idle") =>
              (EmbedAttempts(log) < 3 /\ \A i \in 1..Len(log) : log[i] # "embed_ok")
C25_ThirdFailureRaised ==
    /\ op = "embed_query" /\ pc = "idle"
    /\ log = <<"embed_fail", "sleep", "embed_fail", "sleep", "embed_fail">>
    /\ result = [success |-> FALSE, raised |-> "model not found"]

(***************************************************************************)
(* The lifecycle claims.                                                   *)
(***************************************************************************)
\* C29: in any sequence of startup and shutdown calls, the exit hooks
\* included, the retention policy is applied only when startup takes the
\* application from not started to started, a startup while started changes
\* nothing, a shutdown while not started deletes nothing, and the temp
\* directory is cleaned at most once per startup
C29_LifecycleIdempotent ==
    /\ [](life.cleared <= life.startups /\ life.applied = life.startups)
    /\ [][/\ (life'.applied # life.applied \/ (op' = "startup" /\ stored' # stored)) =>
                 (op' = "startup" /\ ~life.started /\ life'.started
                    /\ life'.applied = life.applied + 1)
          /\ (op' = "startup" /\ life.started) =>
                 (life' = [life EXCEPT !.status = "already_started"] /\ stored' = stored)
          /\ (op' \in {"shutdown", "atexit"} /\ ~life.started) =>
                 /\ life'.temp = life.temp /\ stored' = stored
                 /\ life'.cleared = life.cleared /\ ~life'.started
                 /\ life'.status = "not_started"
          /\ (life'.cleared # life.cleared) =>
                 (life.started /\ ~life'.started /\ life'.cleared = life.cleared + 1)]_vars
C29_HookAfterMainShutdown ==
    /\ op = "atexit" /\ life.phase = "exiting" /\ life.pending = 0
    /\ life.hooks = 1 /\ life.startups = 1 /\ life.applied = 1 /\ life.cleared = 1
    /\ life.status = "not_started" /\ DOMAIN life.temp # {}

(***************************************************************************)
(* The model client claims.                                                *)
(***************************************************************************)
\* C27: after any sequence of set_model, set_temperature, status and chat
\* calls, the model chat and summarize invoke is the one configured by the
\* latest set_model and set_temperature, and the model name status reports
\* is the model of the handle the engine uses
C27_LatestModelInvoked ==
    /\ (op \in {"chat", "summarize"}) =>
           llm.invoked = Some(ChatOllama(llm.model_name, llm.temperature))
    /\ (op = "get_status") =>
           (llm.engine_llm # None /\ llm.engine_llm[1].model = llm.current_model)

(***************************************************************************)
(* The index removal claims.                                               *)
(***************************************************************************)
\* C28: after the retention manager's clear-index or clear-all, the
\* settings panel's 'clear all' included, the adapter answers from the
\* current index directory: count() and list_sources() give what the
\* directory holds (nothing, until something is added), and a following
\* add succeeds and its chunks are in the directory
C28_AdapterFollowsPurge ==
    (db[holders["engine"]].state = "stale") =>
        /\ (last.op = "get_document_count") => last.n = CountOf(index)
        /\ (last.op = "get_all_sources") => last.sources = get_all_sources(index, FALSE)
        /\ (last.op = "add_documents") =>
               /\ ~last.failed /\ last.n = Len(last.docs)
               /\ \A i \in 1..Len(last.docs) : last.docs[i] \in DOMAIN index
                                                /\ index[last.docs[i]] > 0

====
